---- MODULE Spec2Model ----
(***************************************************************************)
(* Model of the API generator code_templates/generate_library_api.py and   *)
(* of code_templates/masala_fxns.py.                                       *)
(*                                                                         *)
(* The specifications share the variables of this module; each leaves the  *)
(* variables of the others in their idle state:                            *)
(*   Spec            the program entry point: the loop over the manifest   *)
(*                   classes, the creator triplets and the registration    *)
(*                   pair;                                                 *)
(*   SpecRerun       the entry point run twice on one manifest, in an      *)
(*                   output directory that holds anything before;          *)
(*   SpecDeprecation determine_deprecation_status and the loops of         *)
(*                   generate_function_prototypes and                      *)
(*                   generate_function_implementations over the entries of *)
(*                   one function group;                                   *)
(*   SpecLineage     get_api_class_include_and_classname, one step per     *)
(*                   (recursive) call and one per return;                  *)
(*   SpecRole        is_plugin_or_noapi_class and is_masala_plugin_class,  *)
(*                   one step per call of the ancestry walk, and the base  *)
(*                   get_api_class_include_and_classname reads;            *)
(*   SpecTranslate   correct_masala_types, called on type expressions      *)
(*                   that share one include accumulator;                   *)
(*   SpecBody        the prototype and the body that                       *)
(*                   generate_function_prototypes and                      *)
(*                   generate_function_implementations write for one       *)
(*                   entry;                                                *)
(*   SpecRuntime     threads calling the written entries of one wrapper    *)
(*                   instance;                                             *)
(*   SpecSite        the places that choose by the role flags of a class:  *)
(*                   lineage, accessor stubs, creator templates;           *)
(*   SpecRef         the places that look a referenced class up in the     *)
(*                   manifest;                                             *)
(*   SpecNames       the name and header of a class's wrapper, as the      *)
(*                   translator, the lineage and the emitter build them;   *)
(*   SpecInc         generate_additional_includes.                         *)
(***************************************************************************)
EXTENDS Integers, Sequences, FiniteSets, TLC

VARIABLES
    \* ---- program entry point ----
    manifest,                       \* json_api["Elements"], in file order
    idx,                            \* position of the for loop over the elements
    pc,                             \* statement the entry point is at
    written,                        \* log of the files written so far
    plugins_list,                   \* the list handed to the registration function
    generate_registration_function, \* the flag of the same name
    \* ---- emission of one function group ----
    project_version,                \* <<project_maj_version, project_min_version>>
    fxns,                           \* the "..._APIs" list of the group
    hh_pos, hh_out, hh_state,       \* generate_function_prototypes: loop position, outstring, status
    cc_pos, cc_out, cc_state,       \* generate_function_implementations: the same
    deprecation_status,             \* values the local of that name took, per loop
    \* ---- lineage resolution ----
    chain,                          \* the declaration files the walk reads
    roles,                          \* the four role flags passed down unchanged
    lpc,                            \* "call", "return", "done" or "error"
    cur,                            \* class the innermost call is resolving
    stack,                          \* classes whose calls wait for a recursive call
    steps,                          \* number of calls made so far
    visited,                        \* sequence of the classes the calls were made for
    ret,                            \* value returned by the innermost finished call
    \* ---- role classification ----
    decls,                          \* the declaration files an ancestry walk reads
    walk,                           \* the routine that walks, and what it seeks
    rpc,                            \* "call", "returned", "AssertionError" or "RecursionError"
    rcur,                           \* class the innermost call reads the declaration of
    rdepth,                         \* number of nested calls
    rvisited,                       \* sequence of the classes the calls were made for
    rresult,                        \* value the outermost call returned (once rpc = "returned")
    \* ---- type translation ----
    type_in,                     \* argument of the latest call of correct_masala_types
    type_out,                       \* what that call returned
    includes_before,                \* includes_list when that call was made
    includes_list,            \* the include accumulator the calls share
    tpc,                            \* "ready", "returned", or the exception raised
    tcalls,                         \* number of calls made
    \* ---- the implementation of one entry ----
    body_fxn,                       \* the entry of the "..._APIs" list
    body_is_derived,                \* is_derived of the class being written
    body_out,                       \* what the loop body added to outstring
    bpc,                            \* "emit", "emitted" or "AssertionError"
    \* ---- a written wrapper at run time ----
    callers,                        \* per thread: the body it runs and where it is
    guards,                         \* per mutex of the wrapper: the thread holding it, or 0
    wpc,                            \* "run" while the wrapper is in use
    \* ---- the output directory over two runs ----
    prior_directory,                \* what the output directory held when the run began
    run_no,                         \* 1 for the first run on the manifest, 2 for the second
    first_directory,                \* what the first run left in the output directory
    \* ---- the role chosen at each site of one class ----
    site_flags,                     \* the four role flags of the manifest element
    site_log,                       \* what each site chose, in the order the files are prepared
    spc,                            \* the file that is prepared next
    \* ---- a class referred to by a parameter or an output ----
    ref,                            \* where the reference stands, its form, the class and its manifest entry
    ref_result,                     \* what the code wrote for the reference, or the exception it raised
    refpc,                          \* "check", then "written" or "raised"
    \* ---- one entry in generate_function_prototypes ----
    proto_out,                      \* the lines written for the prototype of body_fxn
    ppc,                            \* emit, emitted, AssertionError, idle
    \* ---- the name and header of a class's wrapper ----
    qualified_name,                 \* segments of the class's qualified name
    wrapper_of,                     \* name and header of the wrapper, as each routine computed it
    \* ---- the include block of a wrapper's file ----
    accumulator,                    \* the accumulator when the block is generated
    generate_fwd_includes,          \* TRUE for the header file, FALSE for the implementation file
    include_block,                  \* the lines of the block
    ipc                             \* ready, written, idle

mainVars == <<manifest, idx, pc, written, plugins_list, generate_registration_function>>
depVars  == <<project_version, fxns, hh_pos, hh_out, hh_state, cc_pos, cc_out, cc_state,
             deprecation_status>>
linVars  == <<chain, roles, lpc, cur, stack, steps, visited, ret>>
roleVars == <<decls, walk, rpc, rcur, rdepth, rvisited, rresult>>
transVars == <<type_in, type_out, includes_before, includes_list, tpc, tcalls>>
bodyVars == <<body_fxn, body_is_derived, body_out, bpc>>
runVars  == <<callers, guards, wpc>>
rerunVars == <<prior_directory, run_no, first_directory>>
siteVars == <<site_flags, site_log, spc>>
refVars == <<ref, ref_result, refpc>>
protoVars == <<proto_out, ppc>>
namesVars == <<qualified_name, wrapper_of>>
incVars == <<accumulator, generate_fwd_includes, include_block, ipc>>
vars     == <<mainVars, depVars, linVars, roleVars, transVars, bodyVars, runVars, rerunVars, siteVars, refVars, protoVars, namesVars, incVars>>

\* What an action of one group leaves alone.
notMainVars  == <<depVars, linVars, roleVars, transVars, bodyVars, runVars, rerunVars, siteVars, refVars, protoVars, namesVars, incVars>>
notDepVars   == <<mainVars, linVars, roleVars, transVars, bodyVars, runVars, rerunVars, siteVars, refVars, protoVars, namesVars, incVars>>
notLinVars   == <<mainVars, depVars, roleVars, transVars, bodyVars, runVars, rerunVars, siteVars, refVars, protoVars, namesVars, incVars>>
notRoleVars  == <<mainVars, depVars, linVars, transVars, bodyVars, runVars, rerunVars, siteVars, refVars, protoVars, namesVars, incVars>>
notTransVars == <<mainVars, depVars, linVars, roleVars, bodyVars, runVars, rerunVars, siteVars, refVars, protoVars, namesVars, incVars>>
notBodyVars  == <<mainVars, depVars, linVars, roleVars, transVars, runVars, rerunVars, siteVars, refVars, protoVars, namesVars, incVars>>
notRunVars   == <<mainVars, depVars, linVars, roleVars, transVars, bodyVars, rerunVars, siteVars, refVars, protoVars, namesVars, incVars>>
notSiteVars == <<mainVars, depVars, linVars, roleVars, transVars, bodyVars, runVars, rerunVars, refVars, protoVars, namesVars, incVars>>
notRefVars == <<mainVars, depVars, linVars, roleVars, transVars, bodyVars, runVars, rerunVars, siteVars, protoVars, namesVars, incVars>>
notProtoVars == <<mainVars, depVars, linVars, roleVars, transVars, bodyVars, runVars, rerunVars, siteVars, refVars, namesVars, incVars>>
notNamesVars == <<mainVars, depVars, linVars, roleVars, transVars, bodyVars, runVars, rerunVars, siteVars, refVars, protoVars, incVars>>
notIncVars == <<mainVars, depVars, linVars, roleVars, transVars, bodyVars, runVars, rerunVars, siteVars, refVars, protoVars, namesVars>>

-----------------------------------------------------------------------------
(* Bounds of the model.                                                    *)

MaxClasses == 2     \* classes in the manifest
MaxFxns    == 1     \* entries in one function group
MaxMajor   == 1     \* largest major version number drawn
MaxMinor   == 1     \* largest minor version number drawn
MaxChain   == 3     \* classes on the ancestor chain of the resolved class
MaxDecl    == 3     \* declaration files an ancestry walk can reach
MaxContainers == 2  \* containers in one type expression
MaxCalls   == 2     \* calls of the translator that share one accumulator
MaxCallers == 2     \* threads that call entries of one wrapper instance
MaxSegments == 4    \* segments of a qualified class name
MaxIncludes == 3    \* entries of the include accumulator

-----------------------------------------------------------------------------
(* Program entry point.                                                    *)

\* Where the first exception of a class is raised, if any: the namespace
\* assertions, prepare_header_file, prepare_cc_file, or the creator header.
FailPoints == {"none", "namespace", "header", "cc", "creator"}

\* One element of the manifest: the properties the entry point reads.
ClassManifest ==
    [ Is_Plugin_Class            : BOOLEAN,
      Has_Protected_Constructors : BOOLEAN,
      fails                      : FailPoints ]

Manifests == UNION { [1..n -> ClassManifest] : n \in 0..MaxClasses }

\* Name of the creator of the class at position i of the manifest.
determine_creator_name_namespace_filename(i) == <<"Creator", i>>

\* Line 2411: the creator is registered iff the constructors are public.
RegistersCreator_IgnoringConstructors(element) == TRUE

RegistersCreator(element) == element.Has_Protected_Constructors = FALSE

\* Line 2414: plugins_list.append( ... ).
AppendCreator_AtFront(list, entry) == <<entry>> \o list

AppendCreator(list, entry) == Append(list, entry)

\* Lines 1840-1845: the instantiation body is compiled out for a class with
\* protected constructors.
InstantiationBody(has_protected_constructors) ==
    IF has_protected_constructors = TRUE THEN "compiled_out" ELSE "object"

\* Line 2421: the registration pair is generated iff the flag was set.
ShouldGenerateRegistration(flag) == flag = TRUE

\* Lines 2378-2380: the assertions on the namespace of the element that the
\* loop has reached.
NamespaceAssertionsHold_Unchecked(element) == TRUE

NamespaceAssertionsHold(element) == element.fails # "namespace"

\* No statement of the entry point catches an exception: the first one that is
\* raised ends the interpreter, whatever the loop had left to do.
Aborted_SkipToCreator == "creator"

Aborted == "aborted"

InitMain ==
    /\ manifest \in Manifests
    /\ idx = 1
    /\ pc = "loop"
    /\ written = << >>
    /\ plugins_list = << >>
    /\ generate_registration_function = FALSE

IdleMain ==
    /\ manifest = << >>
    /\ idx = 1
    /\ pc = "idle"
    /\ written = << >>
    /\ plugins_list = << >>
    /\ generate_registration_function = FALSE

Write(file) == written' = Append(written, file)

\* Lines 2371-2381: next element; namespace assertions and prepare_directory.
BeginClass ==
    /\ pc = "loop"
    /\ idx <= Len(manifest)
    /\ pc' = IF NamespaceAssertionsHold(manifest[idx]) THEN "fwd" ELSE Aborted
    /\ UNCHANGED <<manifest, idx, written, plugins_list, generate_registration_function>>
    /\ UNCHANGED notMainVars

\* Lines 2401/2405: prepare_forward_declarations.
WriteForwardDeclarations ==
    /\ pc = "fwd"
    /\ Write([kind |-> "fwd", class |-> idx])
    /\ pc' = "hh"
    /\ UNCHANGED <<manifest, idx, plugins_list, generate_registration_function>>
    /\ UNCHANGED notMainVars

\* Lines 2402/2406: prepare_header_file; the file is written last, so nothing
\* is written when lineage resolution, translation or emission raises.
WriteHeaderFile ==
    /\ pc = "hh"
    /\ IF manifest[idx].fails = "header"
         THEN pc' = Aborted /\ UNCHANGED written
         ELSE pc' = "cc" /\ Write([kind |-> "hh", class |-> idx])
    /\ UNCHANGED <<manifest, idx, plugins_list, generate_registration_function>>
    /\ UNCHANGED notMainVars

\* Lines 2403/2407: prepare_cc_file.
WriteCcFile ==
    /\ pc = "cc"
    /\ IF manifest[idx].fails = "cc"
         THEN pc' = Aborted /\ UNCHANGED written
         ELSE pc' = "creator" /\ Write([kind |-> "cc", class |-> idx])
    /\ UNCHANGED <<manifest, idx, plugins_list, generate_registration_function>>
    /\ UNCHANGED notMainVars

\* Lines 2409-2416: a plugin class gets a creator; it is appended to
\* plugins_list only if its constructors are public.
RegisterCreator ==
    /\ pc = "creator"
    /\ IF manifest[idx].Is_Plugin_Class = TRUE
         THEN /\ pc' = "creator_fwd"
              /\ idx' = idx
              /\ IF RegistersCreator(manifest[idx])
                   THEN /\ generate_registration_function' = TRUE
                        /\ plugins_list' = AppendCreator(plugins_list,
                                              determine_creator_name_namespace_filename(idx))
                   ELSE UNCHANGED <<plugins_list, generate_registration_function>>
         ELSE /\ pc' = "loop"
              /\ idx' = idx + 1
              /\ UNCHANGED <<plugins_list, generate_registration_function>>
    /\ UNCHANGED <<manifest, written>>
    /\ UNCHANGED notMainVars

\* Line 2417: prepare_creator_forward_declarations.
WriteCreatorForwardDeclarations ==
    /\ pc = "creator_fwd"
    /\ Write([kind |-> "creator_fwd", class |-> idx])
    /\ pc' = "creator_hh"
    /\ UNCHANGED <<manifest, idx, plugins_list, generate_registration_function>>
    /\ UNCHANGED notMainVars

\* Line 2418: prepare_creator_header_file.
WriteCreatorHeaderFile ==
    /\ pc = "creator_hh"
    /\ IF manifest[idx].fails = "creator"
         THEN pc' = Aborted /\ UNCHANGED written
         ELSE pc' = "creator_cc" /\ Write([kind |-> "creator_hh", class |-> idx])
    /\ UNCHANGED <<manifest, idx, plugins_list, generate_registration_function>>
    /\ UNCHANGED notMainVars

\* Line 2419: prepare_creator_cc_file; ends the iteration of the loop.
WriteCreatorCcFile ==
    /\ pc = "creator_cc"
    /\ Write([kind |-> "creator_cc", class |-> idx,
              body |-> InstantiationBody(manifest[idx].Has_Protected_Constructors)])
    /\ pc' = "loop"
    /\ idx' = idx + 1
    /\ UNCHANGED <<manifest, plugins_list, generate_registration_function>>
    /\ UNCHANGED notMainVars

\* Lines 2421-2422 and 2231-2317: after the loop, the registration pair.
GenerateRegistration ==
    /\ pc = "loop"
    /\ idx > Len(manifest)
    /\ IF ShouldGenerateRegistration(generate_registration_function)
         THEN written' = written \o
                 << [kind |-> "registration_hh"],
                    [kind |-> "registration_cc", creators |-> plugins_list] >>
         ELSE UNCHANGED written
    /\ pc' = "done"
    /\ UNCHANGED <<manifest, idx, plugins_list, generate_registration_function>>
    /\ UNCHANGED notMainVars

Next ==
    \/ BeginClass
    \/ WriteForwardDeclarations
    \/ WriteHeaderFile
    \/ WriteCcFile
    \/ RegisterCreator
    \/ WriteCreatorForwardDeclarations
    \/ WriteCreatorHeaderFile
    \/ WriteCreatorCcFile
    \/ GenerateRegistration

-----------------------------------------------------------------------------
(* Deprecation status and the emission of one function group.              *)

INTACT == 0
DEPRECATION_WARNING == 1
DEPRECATED == 2

\* Outcome of a failed assert of determine_deprecation_status.
AssertionError == 3

Versions == (0..MaxMajor) \X (0..MaxMinor)

\* A version whose keys are missing from the entry.
Absent == << >>

\* The keys of an entry that determine_deprecation_status reads.
\* Will_Be_Deprecated is "absent" when the key is missing.  The version keys
\* are read only when Will_Be_Deprecated is True (lines 49-50), so for the
\* other entries one present version stands for all of them.
ElementProperties ==
    [ Will_Be_Deprecated : {"true"},
      Deprecation_Version : Versions \cup {Absent},
      Deprecation_Warning_Version : Versions \cup {Absent} ]
    \cup
    [ Will_Be_Deprecated : {"absent", "false"},
      Deprecation_Version : {Absent, <<0, 0>>},
      Deprecation_Warning_Version : {Absent, <<0, 0>>} ]

FxnLists == UNION { [1..n -> ElementProperties] : n \in 1..MaxFxns }

\* Lines 55 and 61: the comparison of the project version with a version.
VersionReached_StrictMinor(maj, min, v) ==
    (maj > v[1]) \/ (maj = v[1] /\ min > v[2])

VersionReached(maj, min, v) ==
    (maj > v[1]) \/ (maj = v[1] /\ min >= v[2])

\* Lines 43-63.
determine_deprecation_status(element_properties, project_maj_version, project_min_version) ==
    IF element_properties.Will_Be_Deprecated = "true"
      THEN IF element_properties.Deprecation_Version = Absent
             THEN AssertionError
           ELSE IF VersionReached(project_maj_version, project_min_version,
                                  element_properties.Deprecation_Version)
             THEN DEPRECATED
           ELSE IF /\ element_properties.Deprecation_Warning_Version # Absent
                   /\ VersionReached(project_maj_version, project_min_version,
                                     element_properties.Deprecation_Warning_Version)
             THEN DEPRECATION_WARNING
           ELSE INTACT
      ELSE INTACT

\* Lines 899, 969, 1290, 1491: the only test made on the status.
EmitsGuard_OnWarningToo(status) == status # INTACT

EmitsGuard_OnWarningOnly(status) == status = DEPRECATION_WARNING

EmitsGuard(status) == status = DEPRECATED

\* The text one iteration of either loop appends to outstring: the entry,
\* between "#ifndef MASALA_ENABLE_DEPRECATED_FUNCTIONS" and "#endif" when
\* the guard is emitted.  fxn is the iteration that appended the line.
EntryText(what, i, status) ==
    (IF EmitsGuard(status) THEN << [tok |-> "#ifndef", fxn |-> i] >> ELSE << >>)
    \o << [tok |-> what, fxn |-> i] >> \o
    (IF EmitsGuard(status) THEN << [tok |-> "#endif", fxn |-> i] >> ELSE << >>)

InitDeprecation ==
    /\ project_version \in Versions
    /\ fxns \in FxnLists
    /\ hh_pos = 1 /\ hh_out = << >> /\ hh_state = "running"
    /\ cc_pos = 1 /\ cc_out = << >> /\ cc_state = "waiting"
    /\ deprecation_status = [hh |-> << >>, cc |-> << >>]

IdleDeprecation ==
    /\ project_version = <<0, 0>>
    /\ fxns = << >>
    /\ hh_pos = 1 /\ hh_out = << >> /\ hh_state = "idle"
    /\ cc_pos = 1 /\ cc_out = << >> /\ cc_state = "idle"
    /\ deprecation_status = [hh |-> << >>, cc |-> << >>]

StatusOf(i) == determine_deprecation_status(fxns[i], project_version[1], project_version[2])

\* Lines 891-970: one iteration of the loop of generate_function_prototypes.
EmitPrototype ==
    /\ hh_state = "running"
    /\ hh_pos <= Len(fxns)
    /\ IF StatusOf(hh_pos) = AssertionError
         THEN hh_state' = "aborted" /\ UNCHANGED <<hh_out, hh_pos, deprecation_status>>
         ELSE /\ deprecation_status' =
                     [deprecation_status EXCEPT !.hh = Append(@, StatusOf(hh_pos))]
              /\ hh_out' = hh_out \o EntryText("prototype", hh_pos, StatusOf(hh_pos))
              /\ hh_pos' = hh_pos + 1
              /\ hh_state' = hh_state
    /\ UNCHANGED <<project_version, fxns, cc_pos, cc_out, cc_state>>
    /\ UNCHANGED notDepVars

\* Line 971: the prototypes are returned; prepare_cc_file runs after
\* prepare_header_file.
ReturnPrototypes ==
    /\ hh_state = "running"
    /\ hh_pos > Len(fxns)
    /\ hh_state' = "returned"
    /\ cc_state' = "running"
    /\ UNCHANGED <<project_version, fxns, hh_pos, hh_out, cc_pos, cc_out, deprecation_status>>
    /\ UNCHANGED notDepVars

\* Lines 1282-1492: one iteration of the loop of generate_function_implementations.
EmitImplementation ==
    /\ cc_state = "running"
    /\ cc_pos <= Len(fxns)
    /\ IF StatusOf(cc_pos) = AssertionError
         THEN cc_state' = "aborted" /\ UNCHANGED <<cc_out, cc_pos, deprecation_status>>
         ELSE /\ deprecation_status' =
                     [deprecation_status EXCEPT !.cc = Append(@, StatusOf(cc_pos))]
              /\ cc_out' = cc_out \o EntryText("implementation", cc_pos, StatusOf(cc_pos))
              /\ cc_pos' = cc_pos + 1
              /\ cc_state' = cc_state
    /\ UNCHANGED <<project_version, fxns, hh_pos, hh_out, hh_state>>
    /\ UNCHANGED notDepVars

\* Line 1493.
ReturnImplementations ==
    /\ cc_state = "running"
    /\ cc_pos > Len(fxns)
    /\ cc_state' = "returned"
    /\ UNCHANGED <<project_version, fxns, hh_pos, hh_out, hh_state, cc_pos, cc_out,
                   deprecation_status>>
    /\ UNCHANGED notDepVars

NextDep ==
    \/ EmitPrototype
    \/ ReturnPrototypes
    \/ EmitImplementation
    \/ ReturnImplementations

-----------------------------------------------------------------------------
(* Lineage resolution: get_api_class_include_and_classname.                *)
(*                                                                         *)
(* The walk only ever reads the declaration of the class it was called for *)
(* and of that class's ancestors, so the declaration tree is modelled as   *)
(* the chain 1 -> 2 -> ... -> n of the class (1) and its ancestors; what   *)
(* the declaration of class n names as its base is chain.top.              *)

\* Lines 1967-1970: the bases at which the walk stops.
RootMarkers ==
    { "base::MasalaObject",
      "base::managers::plugin_module::MasalaPlugin",
      "base::managers::engine::MasalaEngine",
      "base::managers::engine::MasalaDataRepresentation" }

\* A declaration "class Name {" with no base clause.
NoBaseClause == "none"

\* What the parent's header declares for get_api_definition(): nothing, a
\* pure virtual override ("override = 0"), or a non-pure override.
Overrides == {"none", "pure", "concrete"}

Chains ==
    UNION { [ n : {n}, override : [2..n -> Overrides], top : RootMarkers \cup {NoBaseClause} ]
            : n \in 1..MaxChain }

Roles ==
    [ is_plugin_class : BOOLEAN, is_engine_class : BOOLEAN,
      is_data_representation_class : BOOLEAN, is_file_interpreter_class : BOOLEAN ]

\* Depth at which the interpreter stops a recursion (scaled down).
RecursionLimit == MaxChain + 2

\* Lines 1950-1971: what the declaration of class c names as its base: an
\* ancestor class, one of the root markers, or nothing.
ParentKind(c) ==
    IF c < chain.n THEN "class"
    ELSE IF chain.top = NoBaseClause THEN "none" ELSE "marker"

\* Lines 1950-1965: parent_namespace_and_name of class c, when it is a class.
ParentOf_Self(c) == c

ParentOf(c) == c + 1

\* Lines 1995-2011: parent_has_api, read from the header of class p.
ParentHasApi_AnyOverride(p) == chain.override[p] # "none"

ParentHasApi(p) == chain.override[p] = "concrete"

\* Lines 1981-1992: parent_api_namespace_and_name for parent class p.
ParentApiName(p) == <<"api", p>>

\* Lines 1976-1991 and 2017-2020: parent_api_hhfile for parent class p.
ParentApiInclude(p) == <<"#include", p>>

\* Lines 2024-2028: the names that are replaced by the immediate base.
GenericRoots ==
    { <<"root", "masala::base::managers::plugin_module::MasalaPluginAPI">>,
      <<"root", "masala::base::managers::engine::MasalaEngineAPI">>,
      <<"root", "masala::base::managers::engine::MasalaDataRepresentationAPI">>,
      <<"root", "masala::base::managers::file_interpreter::MasalaFileInterpreterAPI">>,
      <<"root", "masala::base::MasalaObjectAPI">> }

\* Lines 2036-2061: the root capability wrapper for the role flags.
RootCapabilityName(r) ==
    IF r.is_plugin_class = TRUE
      THEN IF r.is_engine_class = TRUE
             THEN <<"root", "masala::base::managers::engine::MasalaEngineAPI">>
           ELSE IF r.is_data_representation_class = TRUE
             THEN <<"root", "masala::base::managers::engine::MasalaDataRepresentationAPI">>
           ELSE IF r.is_file_interpreter_class = TRUE
             THEN <<"root", "masala::base::managers::file_interpreter::MasalaFileInterpreterAPI">>
           ELSE <<"root", "masala::base::managers::plugin_module::MasalaPluginAPI">>
      ELSE <<"root", "masala::base::MasalaObjectAPI">>

RootCapability(r) ==
    [ include    |-> <<"#include", RootCapabilityName(r)>>,
      base       |-> RootCapabilityName(r),
      root       |-> RootCapabilityName(r),
      is_derived |-> FALSE ]

\* Lines 2023-2030: the value returned by a call whose parent p has an API,
\* from the value sub returned by the recursive call for p.
DerivedFromParent_AlwaysInherit(p, sub) ==
    [ include    |-> ParentApiInclude(p),
      base       |-> ParentApiName(p),
      root       |-> sub.root,
      is_derived |-> TRUE ]

DerivedFromParent(p, sub) ==
    [ include    |-> ParentApiInclude(p),
      base       |-> ParentApiName(p),
      root       |-> IF sub.root \in GenericRoots THEN ParentApiName(p) ELSE sub.root,
      is_derived |-> TRUE ]

InitLineage ==
    /\ chain \in Chains
    /\ roles \in Roles
    /\ lpc = "call"
    /\ cur = 1
    /\ stack = << >>
    /\ steps = 1
    /\ visited = <<1>>
    /\ ret = << >>

IdleLineage ==
    /\ chain = [n |-> 1, override |-> << >>, top |-> NoBaseClause]
    /\ roles = [is_plugin_class |-> FALSE, is_engine_class |-> FALSE,
                is_data_representation_class |-> FALSE, is_file_interpreter_class |-> FALSE]
    /\ lpc = "idle"
    /\ cur = 1
    /\ stack = << >>
    /\ steps = 0
    /\ visited = << >>
    /\ ret = << >>

\* Lines 1948-1971: the call for class cur finds no base clause; the test of
\* line 1967 is then made on None (or the assert of line 1958 fails).
FailOnMissingBase ==
    /\ lpc = "call"
    /\ ParentKind(cur) = "none"
    /\ lpc' = "error"
    /\ UNCHANGED <<chain, roles, cur, stack, steps, visited, ret>>
    /\ UNCHANGED notLinVars

\* Lines 1967-1971 and 2036-2061: the base is a root marker.
ReturnRootCapability ==
    /\ lpc = "call"
    /\ ParentKind(cur) = "marker"
    /\ ret' = (cur :> RootCapability(roles)) @@ ret
    /\ lpc' = "return"
    /\ UNCHANGED <<chain, roles, cur, stack, steps, visited>>
    /\ UNCHANGED notLinVars

\* Lines 1972-2023 and 2034: the base is a class; the call recurses for it,
\* whether or not it has an API.
RecurseIntoParent ==
    /\ lpc = "call"
    /\ ParentKind(cur) = "class"
    /\ IF Len(stack) + 1 >= RecursionLimit
         THEN /\ lpc' = "error"
              /\ UNCHANGED <<cur, stack, steps, visited>>
         ELSE /\ stack' = Append(stack, cur)
              /\ cur' = ParentOf(cur)
              /\ steps' = steps + 1
              /\ visited' = Append(visited, ParentOf(cur))
              /\ lpc' = "call"
    /\ UNCHANGED <<chain, roles, ret>>
    /\ UNCHANGED notLinVars

\* Lines 2024-2030 and 2034: the recursive call for the parent returned.
ReturnFromParent ==
    /\ lpc = "return"
    /\ stack # << >>
    /\ LET c == stack[Len(stack)]
           p == cur
       IN  /\ ret' = (c :> (IF ParentHasApi(p) THEN DerivedFromParent(p, ret[p]) ELSE ret[p])) @@ ret
           /\ cur' = c
    /\ stack' = SubSeq(stack, 1, Len(stack) - 1)
    /\ UNCHANGED <<chain, roles, lpc, steps, visited>>
    /\ UNCHANGED notLinVars

\* The outermost call returned to prepare_header_file / prepare_cc_file.
ReturnToCaller ==
    /\ lpc = "return"
    /\ stack = << >>
    /\ lpc' = "done"
    /\ UNCHANGED <<chain, roles, cur, stack, steps, visited, ret>>
    /\ UNCHANGED notLinVars

NextLin ==
    \/ FailOnMissingBase
    \/ ReturnRootCapability
    \/ RecurseIntoParent
    \/ ReturnFromParent
    \/ ReturnToCaller

-----------------------------------------------------------------------------
(* Role classification: the ancestry walks is_plugin_or_noapi_class (of    *)
(* masala_fxns.py) and is_masala_plugin_class.                             *)
(*                                                                         *)
(* A walk reads the declaration file of the class it was called for, then  *)
(* the file of the base that declaration names, and so on.  decls holds    *)
(* the files it can reach: class c < n names class c + 1 as its base, and  *)
(* the declaration of class n is described by decls.top: it has no base    *)
(* clause, it is not in its file at all, it names one of the two root      *)
(* markers, or it names class decls.back, closing a cycle.                 *)

\* What the declaration of the last class says.
Tops == {"none", "missing", "MasalaPlugin", "MasalaNoAPIObject", "cycle"}

\* "class X : public B" or "class X: public B".
ColonForms == {"spaced", "unspaced"}

\* jsonfile["Elements"][X]["Properties"]["Is_Plugin_Class"], or "absent"
\* when X is not an element of the manifest of this library.
ManifestFlags == {"absent", "true", "false"}

DeclTrees ==
    UNION { { d \in [ n               : {n},
                      colon           : [1..n -> ColonForms],
                      Is_Plugin_Class : [1..n -> ManifestFlags],
                      top             : Tops,
                      back            : 1..n ] :
                /\ d.top \in {"none", "missing"} => d.colon[n] = "spaced"
                /\ d.top # "cycle" => d.back = 1 } : n \in 1..MaxDecl }

\* The routine that reads the declarations and its seek_plugin argument;
\* is_masala_plugin_class only ever seeks the plugin marker, and
\* get_api_class_include_and_classname, which has no such argument and whose
\* recursion is the subject of the lineage model, reads one declaration here.
Walks ==
    { w \in [ routine : {"is_plugin_or_noapi_class", "is_masala_plugin_class",
                         "get_api_class_include_and_classname"},
              seek_plugin : BOOLEAN ] :
          w.routine # "is_plugin_or_noapi_class" => w.seek_plugin }

\* The header file of a root marker itself, read when a walk meets a marker
\* it does not seek: to the walk such a base is one more class.  The marker
\* classes are declared without a base clause the walk would follow further.
MarkerFile == 0

\* The interpreter's bound on nested calls, scaled to the model: more than
\* any walk over MaxDecl distinct files and one marker file needs.
RoleRecursionLimit == MaxDecl + 2

\* What the declaration of class c names after "public": "class" for another
\* class, a marker, "none" without base clause, "missing" without declaration.
BaseKind(c) ==
    IF c = MarkerFile THEN "none"
    ELSE IF c < decls.n THEN "class"
    ELSE IF decls.top = "cycle" THEN "class"
    ELSE decls.top

\* The class whose file the recursive call opens (parent_class_file_from_class_name).
ParentFile(c) ==
    IF BaseKind(c) # "class" THEN MarkerFile
    ELSE IF c < decls.n THEN c + 1
    ELSE decls.back

ColonOf(c) == IF c = MarkerFile THEN "spaced" ELSE decls.colon[c]

\* The marker the walk compares the base with (lines 106-113).
SoughtMarker_Swapped(seek_plugin) ==
    IF seek_plugin THEN "MasalaNoAPIObject" ELSE "MasalaPlugin"

SoughtMarker(seek_plugin) ==
    IF seek_plugin THEN "MasalaPlugin" ELSE "MasalaNoAPIObject"

InitRole ==
    /\ decls \in DeclTrees
    /\ walk \in Walks
    /\ rpc = "call"
    /\ rcur = 1
    /\ rdepth = 1
    /\ rvisited = <<1>>
    /\ rresult = FALSE

IdleRole ==
    /\ decls = [n |-> 1, colon |-> [c \in 1..1 |-> "spaced"],
                Is_Plugin_Class |-> [c \in 1..1 |-> "absent"],
                top |-> "none", back |-> 1]
    /\ walk = [routine |-> "is_plugin_or_noapi_class", seek_plugin |-> FALSE]
    /\ rpc = "idle"
    /\ rcur = 1
    /\ rdepth = 0
    /\ rvisited = << >>
    /\ rresult = FALSE

\* "return X" of the innermost call: every caller returns the value of its
\* recursive call unchanged (line 116, line 228), so it is the walk's result.
RoleReturn(value) ==
    /\ rpc' = "returned"
    /\ rresult' = value
    /\ UNCHANGED <<decls, walk, rcur, rdepth, rvisited>>

\* The recursive call on the file of the base; the interpreter raises
\* RecursionError when the calls nest deeper than its limit.
RoleRecurse(parent) ==
    /\ IF rdepth < RoleRecursionLimit
       THEN /\ rcur' = parent
            /\ rdepth' = rdepth + 1
            /\ rvisited' = Append(rvisited, parent)
            /\ rpc' = "call"
       ELSE /\ rpc' = "RecursionError"
            /\ UNCHANGED <<rcur, rdepth, rvisited>>
    /\ UNCHANGED <<decls, walk, rresult>>

\* ---- is_plugin_or_noapi_class ----

\* Neither "class X :" nor "class X:" nor "class X" is in the file: the
\* assertion of line 94 fails.
ClassDeclarationNotFound ==
    /\ rpc = "call" /\ walk.routine = "is_plugin_or_noapi_class"
    /\ BaseKind(rcur) = "missing"
    /\ rpc' = "AssertionError"
    /\ UNCHANGED <<decls, walk, rcur, rdepth, rvisited, rresult>>
    /\ UNCHANGED notRoleVars

\* "class X" is there without a colon after it: return False (line 99).
ClassHasNoParent ==
    /\ rpc = "call" /\ walk.routine = "is_plugin_or_noapi_class"
    /\ BaseKind(rcur) = "none"
    /\ RoleReturn(FALSE)
    /\ UNCHANGED notRoleVars

\* The base is the marker sought, after either form of the colon: return
\* True (lines 106-113).
ParentIsSoughtMarker ==
    /\ rpc = "call" /\ walk.routine = "is_plugin_or_noapi_class"
    /\ BaseKind(rcur) = SoughtMarker(walk.seek_plugin)
    /\ RoleReturn(TRUE)
    /\ UNCHANGED notRoleVars

\* Any other base: recurse into its header file (lines 115-116).
RecurseIntoParentFile ==
    /\ rpc = "call" /\ walk.routine = "is_plugin_or_noapi_class"
    /\ BaseKind(rcur) \notin {"missing", "none", SoughtMarker(walk.seek_plugin)}
    /\ RoleRecurse(ParentFile(rcur))
    /\ UNCHANGED notRoleVars

\* ---- is_masala_plugin_class ----

\* The class is an element of the manifest: its Is_Plugin_Class property
\* answers (lines 196-201).
ManifestAnswers ==
    /\ rpc = "call" /\ walk.routine = "is_masala_plugin_class"
    /\ rcur # MarkerFile /\ decls.Is_Plugin_Class[rcur] # "absent"
    /\ RoleReturn(decls.Is_Plugin_Class[rcur] = "true")
    /\ UNCHANGED notRoleVars

\* Is there a token sequence "class", X, ":", "public", B in the file
\* (lines 217-223)?  A colon written against the name is part of the name's
\* token and does not match.
FindsParentClass(c) ==
    /\ BaseKind(c) \notin {"missing", "none"}
    /\ ColonOf(c) = "spaced"

InManifest(c) == c # MarkerFile /\ decls.Is_Plugin_Class[c] # "absent"

\* parentclass == None : return False (line 225).
PluginParentNotFound ==
    /\ rpc = "call" /\ walk.routine = "is_masala_plugin_class"
    /\ ~InManifest(rcur)
    /\ ~FindsParentClass(rcur)
    /\ RoleReturn(FALSE)
    /\ UNCHANGED notRoleVars

\* parentclass is the plugin marker: return True (line 226).
PluginParentIsMarker ==
    /\ rpc = "call" /\ walk.routine = "is_masala_plugin_class"
    /\ ~InManifest(rcur)
    /\ FindsParentClass(rcur) /\ BaseKind(rcur) = "MasalaPlugin"
    /\ RoleReturn(TRUE)
    /\ UNCHANGED notRoleVars

\* Any other parentclass: recurse (line 228).
PluginRecurseIntoParent ==
    /\ rpc = "call" /\ walk.routine = "is_masala_plugin_class"
    /\ ~InManifest(rcur)
    /\ FindsParentClass(rcur) /\ BaseKind(rcur) # "MasalaPlugin"
    /\ RoleRecurse(ParentFile(rcur))
    /\ UNCHANGED notRoleVars

\* ---- the base each routine reads from the declaration of class c ----

DeclaredBase(c) == <<BaseKind(c), ParentFile(c)>>
NoParent        == <<"none", MarkerFile>>
ReadRaised(e)   == <<e, MarkerFile>>

\* masala_fxns.py lines 90-104: "class X :" or "class X:" is searched in the
\* text joined with single blanks; the word after "public" is the base.
parent_class_name(c) ==
    IF BaseKind(c) = "missing" THEN ReadRaised("AssertionError")
    ELSE IF BaseKind(c) = "none" THEN NoParent
    ELSE DeclaredBase(c)

\* Lines 214-225 of generate_library_api.py.
parentclass(c) == IF FindsParentClass(c) THEN DeclaredBase(c) ELSE NoParent

\* Lines 1950-1967: the line of the declaration is split at blanks; its second
\* word may be X or "X:".  "class X {" fails the assertion of line 1957; when
\* no line matches, None.endswith raises at line 1967.
parent_namespace_and_name(c) ==
    IF BaseKind(c) = "missing" THEN ReadRaised("AttributeError")
    ELSE IF BaseKind(c) = "none" THEN ReadRaised("AssertionError")
    ELSE DeclaredBase(c)

\* ---- get_api_class_include_and_classname ----

\* Lines 1950-1967 for the class itself; what follows is the lineage.
ReadParentNamespaceAndName ==
    /\ rpc = "call" /\ walk.routine = "get_api_class_include_and_classname"
    /\ rpc' = IF parent_namespace_and_name(rcur)[1] \in {"AssertionError", "AttributeError"}
              THEN parent_namespace_and_name(rcur)[1]
              ELSE "returned"
    /\ UNCHANGED <<decls, walk, rcur, rdepth, rvisited, rresult>>
    /\ UNCHANGED notRoleVars

NextRole ==
    \/ ClassDeclarationNotFound
    \/ ClassHasNoParent
    \/ ParentIsSoughtMarker
    \/ RecurseIntoParentFile
    \/ ManifestAnswers
    \/ PluginParentNotFound
    \/ PluginParentIsMarker
    \/ PluginRecurseIntoParent
    \/ ReadParentNamespaceAndName

-----------------------------------------------------------------------------
(* Type translation: correct_masala_types.                                 *)
(*                                                                         *)
(* A type expression is the sequence of its whitespace-separated tokens,   *)
(* with "<", ">" and "," as tokens of their own, and a token is the        *)
(* sequence of its "::"-separated segments.  A segment is a name and the   *)
(* suffix "_api" or "_API" the translator adds to it.  The routine cuts    *)
(* the expression at the positions str.find and str.rfind give it, and so  *)
(* does the model.                                                         *)

Seg(name) == [name |-> name, suffix |-> ""]
Tok(name) == <<Seg(name)>>

LT    == Tok("<")
GT    == Tok(">")
COMMA == Tok(",")

project_name == "proj"

\* Classes of the declaration tree: Foo and Bar are declared under roots
\* with no base, NoApi derives from masala::base::MasalaNoAPIObject.
FooClass   == <<Seg("proj"), Seg("lib"), Seg("Foo")>>
BarClass   == <<Seg("masala"), Seg("core"), Seg("Bar")>>
NoApiClass == <<Seg("proj"), Seg("lib"), Seg("NoApi")>>
FooApiClass ==
    <<Seg("masala"), [name |-> "lib", suffix |-> "_api"], Seg("auto_generated_api"),
      [name |-> "Foo", suffix |-> "_API"]>>
KnownEnum  == <<Seg("masala"), Seg("base"), Seg("enums"), Seg("ChemicalBondType")>>
MasalaObjectAPI == <<Seg("masala"), Seg("base"), Seg("MasalaObjectAPI")>>

\* The value of is_plugin_or_noapi_class( header of the class, project_name,
\* False ) in this declaration tree.
IsNoApiClass(tok) == tok = NoApiClass

\* All segments of the expression: classname.replace( "::", " " ).split().
RECURSIVE Flatten(_)
Flatten(toks) ==
    IF toks = << >> THEN << >> ELSE Head(toks) \o Flatten(Tail(toks))

EndsWith_api(seg) == seg.suffix = "_api" \/ seg.name = "auto_generated_api"

StartsWithNamespace(toks, ns) ==
    /\ Len(toks) > 0
    /\ Len(toks[1]) > 1
    /\ toks[1][1] = Seg(ns)

\* Lines 179-185.
is_masala_class(toks) ==
    LET classname_split == Flatten(toks)
    IN  IF Len(classname_split) > 2 /\ EndsWith_api(classname_split[2]) THEN FALSE
        ELSE StartsWithNamespace(toks, "masala") \/ StartsWithNamespace(toks, project_name)

\* Lines 232-238: only the first word of the expression is split.
is_masala_api_class(toks) ==
    /\ StartsWithNamespace(toks, "masala")
    /\ Len(toks[1]) > 2
    /\ EndsWith_api(toks[1][2])

\* Lines 396-405: the segments after "masala", as a path.
include_file_from_masala_api_class(toks) == Tail(toks[1])

\* Lines 1046-1063: the whole expression is compared.
is_known_masala_base_enum(toks) ==
    toks = <<KnownEnum>> \/ toks = <<KnownEnum, Tok("const")>>

include_file_for_known_masala_base_enum(toks) == Tok("<base/enums/ChemicalBondTypeEnum.fwd.hh>")

\* str.find: the first position of the token, 0 when there is none.
Find(toks, t) ==
    IF \E i \in 1..Len(toks) : toks[i] = t
    THEN CHOOSE i \in 1..Len(toks) : toks[i] = t /\ \A j \in 1..(i - 1) : toks[j] # t
    ELSE 0

\* str.rfind( t, 0, end ): the last position before end, 0 when there is none.
RFindBefore(toks, t, end) ==
    IF \E i \in 1..(end - 1) : toks[i] = t
    THEN CHOOSE i \in 1..(end - 1) : toks[i] = t /\ \A j \in (i + 1)..(end - 1) : toks[j] # t
    ELSE 0

RFind(toks, t) == RFindBefore(toks, t, Len(toks) + 1)

\* inputclass[ a + 1 : b ], where b = 0 stands for Python's -1.
Between(toks, a, b) == SubSeq(toks, a + 1, IF b = 0 THEN Len(toks) - 1 ELSE b - 1)

\* inputclass[ b : ].
FromPos(toks, b) == SubSeq(toks, IF b = 0 THEN Len(toks) ELSE b, Len(toks))

\* Lines 410-438 of parse_unordered_map: the copy of the expression in which
\* everything outside the first pair of chevrons, and everything inside a
\* nested pair, is overwritten with "#".
RECURSIVE StringCopy(_, _, _, _)
StringCopy(toks, i, inchevron, inchevron2) ==
    IF i > Len(toks) THEN << >>
    ELSE LET c == toks[i]
         IN  IF ~inchevron
             THEN IF c = LT THEN <<c>> \o StringCopy(toks, i + 1, TRUE, inchevron2)
                  ELSE <<Tok("#")>> \o StringCopy(toks, i + 1, FALSE, inchevron2)
             ELSE IF inchevron2 = 0
                  THEN IF c = LT THEN <<Tok("#")>> \o StringCopy(toks, i + 1, TRUE, 1)
                       ELSE IF c = GT THEN <<c>> \o StringCopy(toks, i + 1, FALSE, 0)
                       ELSE <<c>> \o StringCopy(toks, i + 1, TRUE, 0)
                  ELSE IF c = GT THEN <<Tok("#")>> \o StringCopy(toks, i + 1, TRUE, inchevron2 - 1)
                       ELSE IF c = LT THEN <<Tok("#")>> \o StringCopy(toks, i + 1, TRUE, inchevron2 + 1)
                       ELSE <<Tok("#")>> \o StringCopy(toks, i + 1, TRUE, inchevron2)

\* Lines 439-446.
parse_unordered_map(toks) ==
    LET stringcopy == StringCopy(toks, 1, FALSE, 0)
        firstcomma == Find(stringcopy, COMMA)
        lastcomma  == RFind(stringcopy, COMMA)
    IN  [ firstchevron |-> Find(stringcopy, LT),
          lastchevron  |-> RFind(stringcopy, GT),
          firstcomma   |-> firstcomma,
          lastcomma    |-> IF lastcomma = firstcomma THEN 0 ELSE lastcomma ]

Std(name) == <<Seg("std"), Seg(name)>>

\* inputclass.startswith( name ) or inputclass.startswith( "std::" + name ).
StartsWithContainer(toks, name) ==
    Len(toks) > 0 /\ (toks[1] = Tok(name) \/ toks[1] = Std(name))

\* The containers with one type argument that is translated, and the include
\* each appends (lines 496-505, 517-526).
OneArgumentContainers == {"vector", "function", "set", "list"}
ContainerInclude(name) ==
    CASE name = "vector"   -> Tok("<vector>")
      [] name = "function" -> Tok("<functional>")
      [] name = "set"      -> Tok("<set>")
      [] name = "list"     -> Tok("<list>")
      [] name = "pair"     -> Tok("<utility>")
      [] name = "map"      -> Tok("<map>")
      [] name = "unordered_map" -> Tok("<unordered_map>")

\* The root wrapper types that pass through (lines 458-475) and their includes.
MasalaPluginAPI ==
    <<Seg("masala"), Seg("base"), Seg("managers"), Seg("plugin_module"), Seg("MasalaPluginAPI")>>
MasalaEngineAPI ==
    <<Seg("masala"), Seg("base"), Seg("managers"), Seg("engine"), Seg("MasalaEngineAPI")>>
MasalaDataRepresentationAPI ==
    <<Seg("masala"), Seg("base"), Seg("managers"), Seg("engine"), Seg("MasalaDataRepresentationAPI")>>
RootWrapperTypes ==
    {MasalaObjectAPI, MasalaPluginAPI, MasalaEngineAPI, MasalaDataRepresentationAPI}
RootWrapperInclude(tok) ==
    CASE tok = MasalaObjectAPI -> Tok("<base/MasalaObjectAPI.hh>")
      [] tok = MasalaPluginAPI -> Tok("<base/managers/plugin_module/MasalaPluginAPI.hh>")
      [] tok = MasalaEngineAPI -> Tok("<base/managers/engine/MasalaEngineAPI.hh>")
      [] tok = MasalaDataRepresentationAPI ->
             Tok("<base/managers/engine/MasalaDataRepresentationAPI.hh>")

size_pair_hash == <<Seg("masala"), Seg("base"), Seg("size_pair_hash")>>

\* "if x not in additional_includes : additional_includes.append( x )".
AppendIfAbsent(includes, x) ==
    IF \E i \in 1..Len(includes) : includes[i] = x THEN includes ELSE Append(includes, x)

\* additional_includes.append( "<vector>" ) and its like (lines 487-546):
\* the include is appended whether or not the list holds it already.
AppendContainerInclude(includes, x) == Append(includes, x)

\* What a call hands back: the text returned, the accumulator as the call
\* left it, and the exception that ended the call, if one did.
TypeReturned(out, includes) == [out |-> out, inc |-> includes, err |-> "none"]
TypeRaised(kind, includes)  == [out |-> << >>, inc |-> includes, err |-> kind]

\* prefix + (value of the recursive call) + suffix.
Around(prefix, r, suffix) ==
    IF r.err # "none" THEN r ELSE [r EXCEPT !.out = prefix \o r.out \o suffix]

\* Lines 608-626: the wrapper's name; "_api::auto_generated_api" goes after
\* the second segment and "_API" after the last.
ApiSegments(split, from) ==
    [i \in from..(Len(split) + 1) |->
        IF i = 2 THEN [split[2] EXCEPT !.suffix = "_api"]
        ELSE IF i = 3 THEN Seg("auto_generated_api")
        ELSE IF i = Len(split) + 1 THEN [split[i - 1] EXCEPT !.suffix = "_API"]
        ELSE IF i = 1 THEN split[1]
        ELSE split[i - 1]]

\* A function with domain a..b as the sequence of its values.
AsSeq(f, a, b) == [i \in 1..(b - a + 1) |-> f[i + a - 1]]

api_classname_of(split) == AsSeq(ApiSegments(split, 1), 1, Len(split) + 1)
api_filename_of(split)  == AsSeq(ApiSegments(split, 2), 2, Len(split) + 1)

\* Lines 580-631: a class of the project or of masala.
RewriteProjectClass_KeepName(inputclass, additional_includes) ==
    TypeReturned(inputclass, additional_includes)

RewriteProjectClass(inputclass, additional_includes) ==
    LET inputclass_split == inputclass[1]
        inputclass_extension == Tail(inputclass)
    IN  IF Len(inputclass) > 1 /\ inputclass[2] = COMMA
        THEN \* the first word ends in the comma: no header of that name
             TypeRaised("IOError", additional_includes)
        ELSE IF ~(Len(inputclass_split) > 2)
        THEN TypeRaised("AssertionError", additional_includes)
        ELSE IF IsNoApiClass(inputclass_split)
        THEN TypeReturned(inputclass,
                      AppendIfAbsent(additional_includes, Tail(inputclass_split)))
        ELSE TypeReturned(<<api_classname_of(inputclass_split)>> \o inputclass_extension,
                      AppendIfAbsent(additional_includes, api_filename_of(inputclass_split)))

RECURSIVE correct_masala_types(_, _)
correct_masala_types(inputclass, additional_includes) ==
    LET firstchevron == Find(inputclass, LT)
        lastchevron  == RFind(inputclass, GT)
        OneArgument(stdname, includes) ==
            Around(<<stdname, LT>>,
                   correct_masala_types(Between(inputclass, firstchevron, lastchevron), includes),
                   FromPos(inputclass, lastchevron))
    IN
    IF inputclass = << >> THEN TypeReturned(inputclass, additional_includes)
    ELSE IF inputclass[1] \in RootWrapperTypes
    THEN TypeReturned(inputclass, Append(additional_includes, RootWrapperInclude(inputclass[1])))
    ELSE IF ~is_masala_class(inputclass)
    THEN IF inputclass[1] = Tok("MASALA_SHARED_POINTER")
         THEN OneArgument(Tok("MASALA_SHARED_POINTER"), additional_includes)
         ELSE IF \E c \in OneArgumentContainers : StartsWithContainer(inputclass, c)
         THEN LET c == CHOOSE c \in OneArgumentContainers : StartsWithContainer(inputclass, c)
              IN  OneArgument(Std(c), AppendContainerInclude(additional_includes, ContainerInclude(c)))
         ELSE IF StartsWithContainer(inputclass, "pair")
         THEN LET lastcomma == RFindBefore(inputclass, COMMA, lastchevron)
                  first  == correct_masala_types(Between(inputclass, firstchevron, lastcomma),
                                AppendIfAbsent(additional_includes, ContainerInclude("pair")))
                  second == correct_masala_types(Between(inputclass, lastcomma, lastchevron),
                                first.inc)
              IN  IF first.err # "none" THEN first
                  ELSE Around(<<Std("pair"), LT>> \o first.out \o <<COMMA>>, second,
                              FromPos(inputclass, lastchevron))
         ELSE IF StartsWithContainer(inputclass, "map") \/ StartsWithContainer(inputclass, "unordered_map")
         THEN LET name == IF StartsWithContainer(inputclass, "map") THEN "map" ELSE "unordered_map"
                  p == parse_unordered_map(inputclass)
                  keyend == IF p.lastcomma = 0 THEN p.lastchevron ELSE p.lastcomma
                  first  == correct_masala_types(Between(inputclass, p.firstchevron, p.firstcomma),
                                AppendContainerInclude(additional_includes, ContainerInclude(name)))
                  second == correct_masala_types(Between(inputclass, p.firstcomma, keyend),
                                first.inc)
                  third  == correct_masala_types(Between(inputclass, p.lastcomma, p.lastchevron),
                                second.inc)
              IN  IF first.err # "none" THEN first
                  ELSE IF p.lastcomma = 0
                  THEN Around(<<Std(name), LT>> \o first.out \o <<COMMA>>, second, <<GT>>)
                  ELSE IF second.err # "none" THEN second
                  ELSE Around(<<Std(name), LT>> \o first.out \o <<COMMA>> \o second.out \o <<COMMA>>,
                              third, <<GT>>)
         ELSE IF is_masala_api_class(inputclass)
         THEN TypeReturned(inputclass,
                       Append(additional_includes, include_file_from_masala_api_class(inputclass)))
         ELSE TypeReturned(inputclass, additional_includes)
    ELSE IF inputclass[1] = size_pair_hash
    THEN TypeReturned(<<size_pair_hash>>, Append(additional_includes, Tok("<base/hash_types.hh>")))
    ELSE IF is_known_masala_base_enum(inputclass)
    THEN TypeReturned(inputclass,
                  AppendIfAbsent(additional_includes, include_file_for_known_masala_base_enum(inputclass)))
    ELSE RewriteProjectClass(inputclass, additional_includes)

\* ---- the calls ----

IntType == Tok("int")

Container1(name, a) == <<Tok(name), LT>> \o a \o <<GT>>
Container2(name, a, b) == <<Tok(name), LT>> \o a \o <<COMMA>> \o b \o <<GT>>

\* The type expressions with at most k containers, written as the manifest
\* writes them: "vector< pair< int, proj::lib::Foo > >".
RECURSIVE TypeExprsUpTo(_)
TypeExprsUpTo(k) ==
    IF k = 0 THEN {<<IntType>>, <<FooClass>>}
    ELSE LET smaller == TypeExprsUpTo(k - 1)
             Pairs(i) == TypeExprsUpTo(i) \X TypeExprsUpTo(k - 1 - i)
         IN  smaller
             \cup { Container1("vector", e) : e \in smaller }
             \cup UNION { { Container2("pair", ab[1], ab[2]) : ab \in Pairs(i) } : i \in 0..(k - 1) }
             \cup UNION { { Container2("map", ab[1], ab[2]) : ab \in Pairs(i) } : i \in 0..(k - 1) }

\* Expressions of the other kinds the routine tells apart.
OtherTypeExprs ==
    { <<NoApiClass>>, <<FooApiClass>>, <<BarClass>>, <<KnownEnum>>, <<MasalaObjectAPI>>,
      <<FooClass, Tok("const"), Tok("&")>>,
      <<Tok("MASALA_SHARED_POINTER"), LT, FooClass, GT>>,
      Container1("vector", <<FooApiClass>>),
      Container1("set", <<NoApiClass>>),
      Container2("unordered_map", <<IntType>>, <<BarClass>>) }

\* Containers passed by reference to const: "vector< int > const &".
ConstRef == <<Tok("const"), Tok("&")>>
ContainersByConstRef ==
    { Container1(c, <<IntType>>) \o ConstRef : c \in OneArgumentContainers }
    \cup { Container1("MASALA_SHARED_POINTER", <<FooClass>>) \o ConstRef,
           Container2("pair", <<IntType>>, <<FooClass>>) \o ConstRef,
           Container2("map", <<IntType>>, <<FooClass>>) \o ConstRef,
           Container2("unordered_map", <<IntType>>, <<IntType>>) \o ConstRef,
           <<Tok("map"), LT, IntType, COMMA, IntType, COMMA, IntType, GT>> \o ConstRef }

TypeExprs == TypeExprsUpTo(MaxContainers) \cup OtherTypeExprs \cup ContainersByConstRef

InitTranslate ==
    /\ type_in = << >>
    /\ type_out = << >>
    /\ includes_before = << >>
    /\ includes_list = << >>
    /\ tpc = "ready"
    /\ tcalls = 0

IdleTranslate ==
    /\ type_in = << >>
    /\ type_out = << >>
    /\ includes_before = << >>
    /\ includes_list = << >>
    /\ tpc = "idle"
    /\ tcalls = 0

\* One call of correct_masala_types by the emitter, with the accumulator of
\* the class being written, that returns.
TranslateType ==
    /\ tpc \in {"ready", "returned"} /\ tcalls < MaxCalls
    /\ \E e \in TypeExprs :
          LET r == correct_masala_types(e, includes_list)
          IN  /\ r.err = "none"
              /\ type_in' = e
              /\ type_out' = r.out
              /\ includes_before' = includes_list
              /\ includes_list' = r.inc
    /\ tpc' = "returned"
    /\ tcalls' = tcalls + 1
    /\ UNCHANGED notTransVars

\* One call that raises: the exception is not caught anywhere, the run ends.
TranslateTypeRaises ==
    /\ tpc \in {"ready", "returned"} /\ tcalls < MaxCalls
    /\ \E e \in TypeExprs :
          LET r == correct_masala_types(e, includes_list)
          IN  /\ r.err # "none"
              /\ type_in' = e
              /\ type_out' = << >>
              /\ includes_before' = includes_list
              /\ includes_list' = r.inc
              /\ tpc' = r.err
    /\ tcalls' = tcalls + 1
    /\ UNCHANGED notTransVars

NextTrans ==
    \/ TranslateType
    \/ TranslateTypeRaises

-----------------------------------------------------------------------------
(* The text generate_function_implementations writes for one entry, and    *)
(* what the written wrapper does when threads call it.                     *)

\* What the entry returns: nothing, a type that is not a class of the
\* project, a shared pointer to a wrappable class that is not a plugin, a
\* shared pointer to a plugin class (const or not) that is an element of the
\* manifest with public constructors or is not, or a wrappable class by
\* value or reference, plugin or not.
OutputKinds ==
    {"void", "plain", "api_ptr", "plugin_ptr", "plugin_ptr_protected",
     "const_plugin_ptr", "const_plugin_ptr_protected", "api_obj", "plugin_obj"}

\* The keys of an entry the body depends on; deprecation_status is the value
\* determine_deprecation_status returned for it (line 1289).
Fxns ==
    [ fxn_type               : {"GETTER", "SETTER", "WORKFXN"},
      Triggers_No_Mutex_Lock : BOOLEAN,
      Always_Returns_Nullptr : BOOLEAN,
      Returns_This_Ref       : BOOLEAN,
      Output                 : OutputKinds,
      deprecation_status     : {INTACT, DEPRECATION_WARNING, DEPRECATED} ]

\* The lines of a body, one string a statement.
IFNDEF       == "#ifndef MASALA_ENABLE_DEPRECATED_FUNCTIONS"
ENDIF        == "#endif // MASALA_ENABLE_DEPRECATED_FUNCTIONS"
SIGNATURE    == "APIClass::name( inputs ) {"
RETURN_NULL  == " return nullptr; }"
LOCK_MEMBER  == "std::lock_guard< std::mutex > lock( api_mutex_ );"
LOCK_DERIVED == "std::lock_guard< std::mutex > lock( api_mutex() );"
RETURNOBJ    == "MASALA_SHARED_POINTER< T > returnobj( inner_object_->name( inputs ) );"
RETURN_IF_SAME_CLASS ==
    "if( returnobj->class_namespace_and_name() == T ) { return masala::make_shared< T_API >( returnobj ); }"
RETURN_ENCAPSULATED ==
    "return std::static_pointer_cast< T_API >( MasalaPluginModuleManager::get_instance()->encapsulate_plugin_object_instance( returnobj ) );"
RETURN_ENCAPSULATED_CONST ==
    "return std::static_pointer_cast< T_API const >( MasalaPluginModuleManager::get_instance()->encapsulate_const_plugin_object_instance( returnobj ) );"
RETURN_CALL  == "return inner_object_->name( inputs );"
RETURN_API_PTR == "return masala::make_shared< T_API >( std::const_pointer_cast< T >( inner_object_->name( inputs ) ) );"
RETURN_API_OBJ == "return T_API( masala::make_shared< T >( inner_object_->name( inputs ) ) );"
CALL         == "inner_object_->name( inputs );"
CALL_AND_CLOSERS == "inner_object_->name( inputs ) ) );"
RETURN_THIS  == "return *this;"
CLOSE        == "}"

LockStatements == {LOCK_MEMBER, LOCK_DERIVED}

\* The statements that hold the call of generate_function_call( ... ).
CallStatements ==
    {RETURNOBJ, RETURN_CALL, RETURN_API_PTR, RETURN_API_OBJ, CALL, CALL_AND_CLOSERS}

\* The statements that leave the function.
ReturnStatements ==
    {RETURN_NULL, RETURN_ENCAPSULATED, RETURN_ENCAPSULATED_CONST, RETURN_CALL, RETURN_API_PTR, RETURN_API_OBJ,
     RETURN_THIS, CLOSE}

has_output(fxn) == fxn.Output # "void"

\* Lines 1380-1392.
PluginPointerKinds ==
    {"plugin_ptr", "plugin_ptr_protected", "const_plugin_ptr", "const_plugin_ptr_protected"}
convert_to_masala_API_ptr(fxn) == fxn.Output \in {"api_ptr"} \cup PluginPointerKinds
is_masala_plugin_ptr(fxn) == fxn.Output \in PluginPointerKinds
is_masala_API_obj(fxn) == fxn.Output \in {"api_obj", "plugin_obj"} /\ ~fxn.Returns_This_Ref

\* Lines 1393-1398: the assertion that a class returned by value or reference
\* is not a plugin class, made when is_masala_API_obj is set.
PluginObjectAssertionFails(fxn) ==
    ~fxn.Always_Returns_Nullptr /\ is_masala_API_obj(fxn) /\ fxn.Output = "plugin_obj"

\* Lines 1037-1043, for the class the shared pointer of the output points to.
class_exists_and_has_public_constructors(fxn) ==
    fxn.Output \in {"plugin_ptr", "const_plugin_ptr"}

\* Lines 1445-1455: const is the first or the last word of outtype_inner.
EncapsulationCall_NeverConst(fxn) == RETURN_ENCAPSULATED

EncapsulationCall(fxn) ==
    IF fxn.Output \in {"const_plugin_ptr", "const_plugin_ptr_protected"}
    THEN RETURN_ENCAPSULATED_CONST
    ELSE RETURN_ENCAPSULATED

\* Lines 1290-1291, and 1370-1371, 1457-1458, 1491-1492.
GuardOpen(fxn)  == IF fxn.deprecation_status = DEPRECATED THEN <<IFNDEF>> ELSE << >>

GuardClose_Always(fxn) == <<ENDIF>>

GuardClose(fxn) == IF fxn.deprecation_status = DEPRECATED THEN <<ENDIF>> ELSE << >>

\* Lines 1416-1420: the lock statement of the body.
LockLines_EvenIfNoLock(fxn, is_derived) ==
    IF is_derived THEN <<LOCK_DERIVED>> ELSE <<LOCK_MEMBER>>

LockLines_OnlyWhenDerived(fxn, is_derived) ==
    IF fxn.Triggers_No_Mutex_Lock = FALSE /\ is_derived THEN <<LOCK_DERIVED>> ELSE << >>

LockLines(fxn, is_derived) ==
    IF fxn.Triggers_No_Mutex_Lock = FALSE
    THEN IF is_derived THEN <<LOCK_DERIVED>> ELSE <<LOCK_MEMBER>>
    ELSE << >>

\* Line 1421.
ReturnsValue(fxn) ==
    fxn.fxn_type \in {"GETTER", "WORKFXN"} /\ has_output(fxn) /\ ~fxn.Returns_This_Ref

\* Lines 1322-1323: the assertion on an entry that always returns nullptr.
AlwaysNullAssertionFails(fxn) == fxn.Always_Returns_Nullptr /\ ~has_output(fxn)

\* Lines 1368-1372.
AlwaysNullBody(fxn) ==
    GuardOpen(fxn) \o <<SIGNATURE, RETURN_NULL>> \o GuardClose(fxn)

\* Lines 1416-1462: the result goes through the plugin module manager.
PluginPointerBody(fxn, is_derived) ==
    GuardOpen(fxn) \o <<SIGNATURE>> \o LockLines(fxn, is_derived) \o <<RETURNOBJ>>
    \o (IF class_exists_and_has_public_constructors(fxn)
        THEN <<RETURN_IF_SAME_CLASS>> ELSE << >>)
    \o <<EncapsulationCall(fxn), CLOSE>> \o GuardClose(fxn)

\* Lines 1416-1421 and 1464-1492.  The closing brackets of lines 1483-1486
\* are written whether or not lines 1466-1477 wrote the opening ones.
DelegatingBody(fxn, is_derived) ==
    GuardOpen(fxn) \o <<SIGNATURE>> \o LockLines(fxn, is_derived)
    \o (IF ReturnsValue(fxn)
        THEN IF convert_to_masala_API_ptr(fxn) THEN <<RETURN_API_PTR>>
             ELSE IF is_masala_API_obj(fxn) THEN <<RETURN_API_OBJ>>
             ELSE <<RETURN_CALL>>
        ELSE IF (convert_to_masala_API_ptr(fxn) /\ ~fxn.Returns_This_Ref) \/ is_masala_API_obj(fxn)
             THEN <<CALL_AND_CLOSERS>>
             ELSE <<CALL>>)
    \o (IF fxn.Returns_This_Ref THEN <<RETURN_THIS>> ELSE << >>)
    \o <<CLOSE>> \o GuardClose(fxn)

\* The path the loop body takes for the entry.
TakesPluginPath(fxn) == ReturnsValue(fxn) /\ is_masala_plugin_ptr(fxn)

ImplementationText(fxn, is_derived) ==
    IF fxn.Always_Returns_Nullptr THEN AlwaysNullBody(fxn)
    ELSE IF TakesPluginPath(fxn) THEN PluginPointerBody(fxn, is_derived)
    ELSE DelegatingBody(fxn, is_derived)

InitBody ==
    /\ body_fxn \in Fxns
    /\ body_is_derived \in BOOLEAN
    /\ body_out = << >>
    /\ bpc = "emit"

IdleBody ==
    /\ body_fxn = [fxn_type |-> "GETTER", Triggers_No_Mutex_Lock |-> FALSE,
                   Always_Returns_Nullptr |-> FALSE, Returns_This_Ref |-> FALSE,
                   Output |-> "void", deprecation_status |-> INTACT]
    /\ body_is_derived = FALSE
    /\ body_out = << >>
    /\ bpc = "idle"

\* The assertion of line 1323 fails: nothing is returned for the class.
EmitFailsAssertion ==
    /\ bpc = "emit"
    /\ AlwaysNullAssertionFails(body_fxn)
    /\ bpc' = "AssertionError"
    /\ UNCHANGED <<body_fxn, body_is_derived, body_out>>
    /\ UNCHANGED notBodyVars

\* The assertion of lines 1393-1398 fails: a plugin class by value.
EmitFailsPluginObject ==
    /\ bpc = "emit"
    /\ PluginObjectAssertionFails(body_fxn)
    /\ bpc' = "AssertionError"
    /\ UNCHANGED <<body_fxn, body_is_derived, body_out>>
    /\ UNCHANGED notBodyVars

EmitAlwaysNull ==
    /\ bpc = "emit"
    /\ ~AlwaysNullAssertionFails(body_fxn)
    /\ body_fxn.Always_Returns_Nullptr
    /\ body_out' = ImplementationText(body_fxn, body_is_derived)
    /\ bpc' = "emitted"
    /\ UNCHANGED <<body_fxn, body_is_derived>>
    /\ UNCHANGED notBodyVars

EmitPluginPointerReturn ==
    /\ bpc = "emit"
    /\ ~body_fxn.Always_Returns_Nullptr
    /\ TakesPluginPath(body_fxn)
    /\ body_out' = ImplementationText(body_fxn, body_is_derived)
    /\ bpc' = "emitted"
    /\ UNCHANGED <<body_fxn, body_is_derived>>
    /\ UNCHANGED notBodyVars

EmitDelegatingCall ==
    /\ bpc = "emit"
    /\ ~body_fxn.Always_Returns_Nullptr
    /\ ~PluginObjectAssertionFails(body_fxn)
    /\ ~TakesPluginPath(body_fxn)
    /\ body_out' = ImplementationText(body_fxn, body_is_derived)
    /\ bpc' = "emitted"
    /\ UNCHANGED <<body_fxn, body_is_derived>>
    /\ UNCHANGED notBodyVars

\* ---- the prototype of an entry (generate_function_prototypes) ----

PROTOTYPE == "name( inputs );"

\* Lines 898-900 and 969-970 around lines 902-968.
PrototypeText(fxn) == GuardOpen(fxn) \o <<PROTOTYPE>> \o GuardClose(fxn)

InitProto ==
    /\ proto_out = << >>
    /\ ppc = "emit"

IdleProto ==
    /\ proto_out = << >>
    /\ ppc = "idle"

\* Lines 912-914: the assertion fails after the guard was opened; nothing is
\* returned.
EmitPrototypeFailsAssertion ==
    /\ ppc = "emit"
    /\ AlwaysNullAssertionFails(body_fxn)
    /\ ppc' = "AssertionError"
    /\ UNCHANGED <<proto_out, bodyVars>>
    /\ UNCHANGED <<mainVars, depVars, linVars, roleVars, transVars, runVars, rerunVars, siteVars,
                   refVars, namesVars, incVars>>

\* Lines 891-970: one iteration of the loop.
EmitPrototypeText ==
    /\ ppc = "emit"
    /\ ~AlwaysNullAssertionFails(body_fxn)
    /\ proto_out' = PrototypeText(body_fxn)
    /\ ppc' = "emitted"
    /\ UNCHANGED bodyVars
    /\ UNCHANGED <<mainVars, depVars, linVars, roleVars, transVars, runVars, rerunVars, siteVars,
                   refVars, namesVars, incVars>>

NextBody ==
    \/ EmitFailsAssertion
    \/ EmitFailsPluginObject
    \/ EmitAlwaysNull
    \/ EmitPluginPointerReturn
    \/ EmitDelegatingCall
    \/ EmitPrototypeFailsAssertion
    \/ EmitPrototypeText

\* ---- the written wrapper at run time ----

\* The entries as a caller meets them: compiled in, and written by a run of
\* the generator that did not abort.
CallableFxns ==
    { f \in Fxns : /\ f.deprecation_status = INTACT
                    /\ ~AlwaysNullAssertionFails(f)
                    /\ ~PluginObjectAssertionFails(f) }

\* The mutex a lock statement locks.  A wrapper that derives from no other
\* wrapper holds the member api_mutex_; in a derived wrapper api_mutex() is
\* the accessor of that same member of the wrapper it derives from.
GuardLocked(statement) == "api_mutex_"

NotRunning == [body |-> << >>, at |-> 0, in_call |-> FALSE, no_lock |-> FALSE]

InitRuntime ==
    /\ callers = [t \in 1..MaxCallers |-> NotRunning]
    /\ guards = [g \in {"api_mutex_"} |-> 0]
    /\ wpc = "run"

IdleRuntime ==
    /\ callers = [t \in 1..1 |-> NotRunning]
    /\ guards = [g \in {"api_mutex_"} |-> 0]
    /\ wpc = "idle"

Statement(t) == callers[t].body[callers[t].at]

Running(t) == callers[t].at > 0

\* std::lock_guard releases at the end of the function.
ReleasedBy(t) == [g \in DOMAIN guards |-> IF guards[g] = t THEN 0 ELSE guards[g]]

\* A thread calls an entry of the wrapper, one written for the wrapper's own
\* class or one written for the class of the wrapper it derives from.
CallerEnters(t) ==
    /\ wpc = "run" /\ ~Running(t)
    /\ \E f \in CallableFxns, is_derived \in BOOLEAN :
          callers' = [callers EXCEPT ![t] =
                         [body |-> ImplementationText(f, is_derived), at |-> 2,
                          in_call |-> FALSE, no_lock |-> f.Triggers_No_Mutex_Lock]]
    /\ UNCHANGED <<guards, wpc>>
    /\ UNCHANGED notRunVars

\* Lines 1126-1278: the accessor stubs written for a data representation,
\* engine or file interpreter class lock the same way before they touch the
\* inner object.
RoleStubText(is_derived) ==
    <<SIGNATURE, IF is_derived THEN LOCK_DERIVED ELSE LOCK_MEMBER, RETURN_CALL>>

CallerEntersRoleStub(t) ==
    /\ wpc = "run" /\ ~Running(t)
    /\ \E is_derived \in BOOLEAN :
          callers' = [callers EXCEPT ![t] =
                         [body |-> RoleStubText(is_derived), at |-> 2,
                          in_call |-> FALSE, no_lock |-> FALSE]]
    /\ UNCHANGED <<guards, wpc>>
    /\ UNCHANGED notRunVars

CallerLocksGuard(t) ==
    /\ Running(t) /\ Statement(t) \in LockStatements
    /\ guards[GuardLocked(Statement(t))] = 0
    /\ guards' = [guards EXCEPT ![GuardLocked(Statement(t))] = t]
    /\ callers' = [callers EXCEPT ![t].at = @ + 1]
    /\ UNCHANGED wpc
    /\ UNCHANGED notRunVars

CallerBeginsDelegatedCall(t) ==
    /\ Running(t) /\ Statement(t) \in CallStatements /\ ~callers[t].in_call
    /\ callers' = [callers EXCEPT ![t].in_call = TRUE]
    /\ UNCHANGED <<guards, wpc>>
    /\ UNCHANGED notRunVars

CallerEndsDelegatedCall(t) ==
    /\ Running(t) /\ Statement(t) \in CallStatements /\ callers[t].in_call
    /\ IF Statement(t) \in ReturnStatements
       THEN /\ callers' = [callers EXCEPT ![t] = NotRunning]
            /\ guards' = ReleasedBy(t)
       ELSE /\ callers' = [callers EXCEPT ![t].in_call = FALSE, ![t].at = @ + 1]
            /\ UNCHANGED guards
    /\ UNCHANGED wpc
    /\ UNCHANGED notRunVars

\* A statement without the delegated call: the check of the class name
\* returns or falls through, any other statement of the kind returns.
CallerReturns(t) ==
    /\ Running(t) /\ Statement(t) \notin (LockStatements \cup CallStatements)
    /\ \/ /\ Statement(t) \in (ReturnStatements \cup {RETURN_IF_SAME_CLASS})
          /\ callers' = [callers EXCEPT ![t] = NotRunning]
          /\ guards' = ReleasedBy(t)
       \/ /\ Statement(t) = RETURN_IF_SAME_CLASS
          /\ callers' = [callers EXCEPT ![t].at = @ + 1]
          /\ UNCHANGED guards
    /\ UNCHANGED wpc
    /\ UNCHANGED notRunVars

NextRun ==
    \/ \E t \in 1..MaxCallers : CallerEnters(t)
    \/ \E t \in 1..MaxCallers : CallerEntersRoleStub(t)
    \/ \E t \in 1..MaxCallers : CallerLocksGuard(t)
    \/ \E t \in 1..MaxCallers : CallerBeginsDelegatedCall(t)
    \/ \E t \in 1..MaxCallers : CallerEndsDelegatedCall(t)
    \/ \E t \in 1..MaxCallers : CallerReturns(t)

-----------------------------------------------------------------------------
(* The output directory src/<library>_api/auto_generated_api/ over two runs *)
(* of the entry point on one manifest.                                      *)

\* A file of the directory: its path below the directory and its content.  A
\* path is the kind of the file and the class it belongs to (0 for none).
File(path, content) == [path |-> path, content |-> content]

README == File(<<"README", 0>>, [kind |-> "README"])

\* Files that an earlier build or a user may have left: a header at the path
\* of the first class's header, a registration file, a file no run writes.
StaleFiles ==
    { File(<<"hh", 1>>, [kind |-> "stale"]),
      File(<<"registration_cc", 0>>, [kind |-> "stale"]),
      File(<<"notes", 0>>, [kind |-> "stale"]) }

PriorDirectories == SUBSET StaleFiles

\* Lines 257-270: initialize_directory removes the directory with all it
\* holds, makes it again and writes README.txt.
initialize_directory_KeepingContents(contents) == contents \cup {README}

initialize_directory(contents) == {README}

\* Path of a file of the log of the run.
PathOf(file) ==
    IF file.kind \in {"registration_hh", "registration_cc"}
    THEN <<file.kind, 0>>
    ELSE <<file.kind, file.class>>

\* open( fname, 'w' ): the file at the path is created or replaced.
WriteFile(contents, file) ==
    {f \in contents : f.path # PathOf(file)} \cup {File(PathOf(file), file)}

\* Lines 2241-2247: the registration directory is removed with all it holds
\* before the registration pair is written.
ClearRegistration(contents) ==
    {f \in contents : f.path[1] \notin {"registration_hh", "registration_cc"}}

\* The directory after the first k files of the log have been written.
RECURSIVE AfterWrites(_, _, _)
AfterWrites(contents, log, k) ==
    IF k = 0 THEN contents
    ELSE LET before == AfterWrites(contents, log, k - 1)
         IN  IF log[k].kind = "registration_hh"
             THEN WriteFile(ClearRegistration(before), log[k])
             ELSE WriteFile(before, log[k])

\* What the directory holds now: line 2332, then the files written so far.
Directory ==
    AfterWrites(initialize_directory(prior_directory), written, Len(written))

InitRerun ==
    /\ prior_directory \in PriorDirectories
    /\ run_no = 1
    /\ first_directory = {}

IdleRerun ==
    /\ prior_directory = {}
    /\ run_no = 0
    /\ first_directory = {}

\* The generator is started again on the same manifest, in the directory as
\* the first run, complete or not, left it (lines 2325-2368).
RunAgain ==
    /\ run_no = 1
    /\ pc \in {"done", "aborted"}
    /\ run_no' = 2
    /\ first_directory' = Directory
    /\ prior_directory' = Directory
    /\ idx' = 1
    /\ pc' = "loop"
    /\ written' = << >>
    /\ plugins_list' = << >>
    /\ generate_registration_function' = FALSE
    /\ UNCHANGED manifest
    /\ UNCHANGED <<depVars, linVars, roleVars, transVars, bodyVars, runVars, siteVars, refVars, protoVars, namesVars, incVars>>

NextRerun ==
    \/ BeginClass
    \/ WriteForwardDeclarations
    \/ WriteHeaderFile
    \/ WriteCcFile
    \/ RegisterCreator
    \/ WriteCreatorForwardDeclarations
    \/ WriteCreatorHeaderFile
    \/ WriteCreatorCcFile
    \/ GenerateRegistration
    \/ RunAgain

-----------------------------------------------------------------------------
(* The role chosen for one class at each place that tests the role flags:  *)
(* the wrapper header and implementation (root capability wrapper of the   *)
(* lineage, accessor stubs) and the three creator files.  The class is     *)
(* declared directly under a root marker, so that the lineage returns the  *)
(* root capability wrapper itself.                                         *)

\* Lines 2383-2398: the flags read from the element's properties.
SiteFlags ==
    [ is_plugin_class : BOOLEAN, is_engine_class : BOOLEAN,
      is_data_representation_class : BOOLEAN, is_file_interpreter_class : BOOLEAN ]

\* Lines 809-846 and 1126-1197: the accessor stubs written with the getters.
AccessorStubs(f) ==
    IF f.is_data_representation_class = TRUE THEN "get_inner_data_representation_object"
    ELSE IF f.is_engine_class = TRUE THEN "get_inner_engine_object"
    ELSE IF f.is_file_interpreter_class = TRUE THEN "get_inner_file_interpreter_object"
    ELSE "none"

\* Lines 873-886 and 1251-1279: the stubs written with the setters.
SetterStubs(f) ==
    IF f.is_data_representation_class = TRUE THEN "inner_object_clear" ELSE "none"

\* Lines 1678-1685: the template of the creator's forward declarations.
CreatorFwdTemplate(f) ==
    IF f.is_data_representation_class = TRUE THEN "data_rep_creator_fwdfile_template"
    ELSE IF f.is_file_interpreter_class = TRUE THEN "file_interpreter_creator_fwdfile_template"
    ELSE IF f.is_engine_class = TRUE THEN "engine_creator_fwdfile_template"
    ELSE "plugin_creator_fwdfile_template"

\* Lines 1755-1774: the template of the creator's header.
CreatorHhTemplate(f) ==
    IF f.is_data_representation_class = TRUE THEN "data_rep_creator_hhfile_template"
    ELSE IF f.is_engine_class = TRUE THEN "engine_creator_hhfile_template"
    ELSE IF f.is_file_interpreter_class = TRUE THEN "file_interpreter_creator_hhfile_template"
    ELSE "plugin_creator_hhfile_template"

\* Lines 1847-1866: the template of the creator's implementation.
CreatorCcTemplate(f) ==
    IF f.is_data_representation_class = TRUE THEN "data_rep_creator_ccfile_template"
    ELSE IF f.is_engine_class = TRUE THEN "engine_creator_ccfile_template"
    ELSE IF f.is_file_interpreter_class = TRUE THEN "file_interpreter_creator_ccfile_template"
    ELSE "plugin_creator_ccfile_template"

Chose(site, choice) == [site |-> site, choice |-> choice]

InitSite ==
    /\ site_flags \in SiteFlags
    /\ site_log = << >>
    /\ spc = "hh_lineage"

IdleSite ==
    /\ site_flags = [is_plugin_class |-> FALSE, is_engine_class |-> FALSE,
                     is_data_representation_class |-> FALSE,
                     is_file_interpreter_class |-> FALSE]
    /\ site_log = << >>
    /\ spc = "idle"

\* The file whose text is being put together.
FileOf(at) == IF at \in {"hh_lineage", "hh_setters", "hh_getters"} THEN "header" ELSE "cc"

\* Lines 2076 and 2154: prepare_header_file and prepare_cc_file resolve the
\* lineage of the class.
ResolveWrapperLineage ==
    /\ spc \in {"hh_lineage", "cc_lineage"}
    /\ site_log' = Append(site_log, Chose(<<FileOf(spc), "root">>, RootCapabilityName(site_flags)[2]))
    /\ spc' = IF spc = "hh_lineage" THEN "hh_setters" ELSE "cc_setters"
    /\ UNCHANGED site_flags
    /\ UNCHANGED notSiteVars

\* Lines 2116 and 2180: the setters, with the stubs of lines 873-886 and
\* 1251-1279.
WriteSetterStubs ==
    /\ spc \in {"hh_setters", "cc_setters"}
    /\ site_log' = Append(site_log, Chose(<<FileOf(spc), "setter_stubs">>, SetterStubs(site_flags)))
    /\ spc' = IF spc = "hh_setters" THEN "hh_getters" ELSE "cc_getters"
    /\ UNCHANGED site_flags
    /\ UNCHANGED notSiteVars

\* Lines 2117 and 2181: the getters, with the accessor stubs; line 2409: only
\* a plugin class gets a creator.
WriteGetterStubs ==
    /\ spc \in {"hh_getters", "cc_getters"}
    /\ site_log' = Append(site_log, Chose(<<FileOf(spc), "getter_stubs">>, AccessorStubs(site_flags)))
    /\ spc' = IF spc = "hh_getters" THEN "cc_lineage"
              ELSE IF site_flags.is_plugin_class = TRUE THEN "creator_fwd" ELSE "done"
    /\ UNCHANGED site_flags
    /\ UNCHANGED notSiteVars

\* Line 2417: prepare_creator_forward_declarations.
PrepareCreatorFwd ==
    /\ spc = "creator_fwd"
    /\ site_log' = Append(site_log, Chose(<<"creator_fwd", "template">>, CreatorFwdTemplate(site_flags)))
    /\ spc' = "creator_lineage"
    /\ UNCHANGED site_flags
    /\ UNCHANGED notSiteVars

\* Line 1745: prepare_creator_header_file resolves the lineage once more,
\* with is_plugin_class = True.
ResolveCreatorLineage ==
    /\ spc = "creator_lineage"
    /\ site_log' = Append(site_log,
          Chose(<<"creator_hh", "root">>,
                RootCapabilityName([site_flags EXCEPT !.is_plugin_class = TRUE])[2]))
    /\ spc' = "creator_hh"
    /\ UNCHANGED site_flags
    /\ UNCHANGED notSiteVars

\* Lines 1755-1774: the template of the creator header is chosen.
PrepareCreatorHh ==
    /\ spc = "creator_hh"
    /\ site_log' = Append(site_log, Chose(<<"creator_hh", "template">>, CreatorHhTemplate(site_flags)))
    /\ spc' = "creator_cc"
    /\ UNCHANGED site_flags
    /\ UNCHANGED notSiteVars

\* Line 2419: prepare_creator_cc_file.
PrepareCreatorCc ==
    /\ spc = "creator_cc"
    /\ site_log' = Append(site_log, Chose(<<"creator_cc", "template">>, CreatorCcTemplate(site_flags)))
    /\ spc' = "done"
    /\ UNCHANGED site_flags
    /\ UNCHANGED notSiteVars

NextSite ==
    \/ ResolveWrapperLineage
    \/ WriteSetterStubs
    \/ WriteGetterStubs
    \/ PrepareCreatorFwd
    \/ ResolveCreatorLineage
    \/ PrepareCreatorHh
    \/ PrepareCreatorCc

-----------------------------------------------------------------------------
(* A reference to a class in a constructor parameter, a function parameter *)
(* or a function output, and what the code that writes the access to the   *)
(* inner object makes of the manifest entry of that class.                 *)

\* The reference: where it stands; whether the type is the class itself
\* (with or without const and &) or MASALA_SHARED_POINTER< class >; whether
\* the class is of another project, a known enum of masala::base, a class
\* derived from MasalaNoAPIObject, or a class that gets a wrapper; and what
\* jsonfile["Elements"] holds for it.
Refs ==
    [ site  : {"constructor_parameter", "function_parameter", "function_output"},
      form  : {"value", "shared_pointer"},
      class : {"foreign", "enum", "noapi", "wrappable"},
      entry : {"absent", "no_lightweight_key", "lightweight", "not_lightweight"} ]

\* jsonfile["Elements"][X]["Properties"]["Is_Lightweight"], for X an element.
Is_Lightweight(r) ==
    IF r.entry = "no_lightweight_key" THEN "KeyError"
    ELSE IF r.entry = "lightweight" THEN "inner object" ELSE "*( inner object )"

\* Lines 304-330: access_needed_object, called for each constructor input.
access_needed_object(r) ==
    IF r.form = "shared_pointer"
    THEN IF r.class # "foreign" THEN "inner object" ELSE "instance"
    ELSE IF r.class \in {"foreign", "enum", "noapi"} THEN "instance"
    ELSE IF r.entry = "absent" THEN "AssertionError"
    ELSE Is_Lightweight(r)

\* Lines 985-1025: the argument generate_function_call writes for an input.
\* The test of line 1013 takes a class that is no element of the manifest
\* for one that is not lightweight.
FunctionCallArgument(r) ==
    IF r.class = "foreign" \/ (r.form = "value" /\ r.class = "noapi") THEN "instance"
    ELSE IF r.entry = "no_lightweight_key" THEN "KeyError"
    ELSE IF r.entry = "lightweight" THEN "inner object"
    ELSE IF r.form = "shared_pointer" THEN "inner object"
    ELSE IF r.class = "enum" THEN "instance"
    ELSE "*( inner object )"

\* Lines 1305-1311: output_is_lightweight of generate_function_implementations.
OutputIsLightweight(r) ==
    IF r.form = "shared_pointer" \/ r.class \in {"foreign", "enum"} THEN "instance"
    ELSE IF r.entry = "absent" THEN "AssertionError"
    ELSE Is_Lightweight(r)

Exceptions == {"AssertionError", "KeyError"}

InitRef ==
    /\ ref \in Refs
    /\ ref_result = "none"
    /\ refpc = "check"

IdleRef ==
    /\ ref = [site |-> "function_output", form |-> "value", class |-> "foreign",
              entry |-> "absent"]
    /\ ref_result = "none"
    /\ refpc = "idle"

RefOutcome(result) ==
    /\ ref_result' = result
    /\ refpc' = IF result \in Exceptions THEN "raised" ELSE "written"
    /\ UNCHANGED ref

\* Lines 749 and 767: a constructor passes its input to the inner class.
AccessConstructorInput ==
    /\ refpc = "check" /\ ref.site = "constructor_parameter"
    /\ RefOutcome(access_needed_object(ref))
    /\ UNCHANGED notRefVars

\* Lines 1435 and 1482: the call of the inner function is written.
WriteFunctionCallArgument ==
    /\ refpc = "check" /\ ref.site = "function_parameter"
    /\ RefOutcome(FunctionCallArgument(ref))
    /\ UNCHANGED notRefVars

\* Lines 1305-1311: the output type of a function is looked up.
LookUpFunctionOutput ==
    /\ refpc = "check" /\ ref.site = "function_output"
    /\ RefOutcome(OutputIsLightweight(ref))
    /\ UNCHANGED notRefVars

NextRef ==
    \/ AccessConstructorInput
    \/ WriteFunctionCallArgument
    \/ LookUpFunctionOutput

-----------------------------------------------------------------------------
(* The wrapper of a class: its qualified name and the header it is in, as  *)
(* correct_masala_types, get_api_class_include_and_classname and the       *)
(* routines that write the wrapper compute them.  Names and paths are the  *)
(* strings the routines build.                                             *)

SegmentNames == {"lib", "sub", "Foo"}

\* Qualified names of three segments or more, in this project or in masala.
QualifiedNames ==
    UNION { { <<p>> \o rest : p \in {project_name, "masala"},
                              rest \in [1..(n - 1) -> SegmentNames] } : n \in 3..MaxSegments }

NoWrapper == [name |-> "", header |-> ""]

\* Lines 608-626, for a class that is no MasalaNoAPIObject: iteration i of
\* the loop (i counted from 0 as range does).
RECURSIVE api_classname_and_filename(_, _, _, _)
api_classname_and_filename(inputclass_split, i, api_classname, api_filename) ==
    IF i = Len(inputclass_split)
    THEN [name |-> api_classname, header |-> api_filename]
    ELSE LET curstring == inputclass_split[i + 1]
             name0 == api_classname \o curstring
         IN  IF i = 0
             THEN api_classname_and_filename(inputclass_split, 1, name0 \o "::", api_filename)
             ELSE LET file0 == api_filename \o curstring
                      name1 == IF i = 1 THEN name0 \o "_api::auto_generated_api" ELSE name0
                      file1 == IF i = 1 THEN file0 \o "_api/auto_generated_api" ELSE file0
                  IN  IF i = Len(inputclass_split) - 1
                      THEN api_classname_and_filename(inputclass_split, i + 1,
                                                      name1 \o "_API", file1 \o "_API")
                      ELSE api_classname_and_filename(inputclass_split, i + 1,
                                                      name1 \o "::", file1 \o "/")

\* Line 1515: the include line of an entry of the accumulator, in the
\* implementation file.
IncludeLine(entry) == "#include <" \o entry \o ".hh>"

\* Lines 1980-1992: iteration i of the loop (from 1), then the suffixes.
RECURSIVE parent_api_hhfile_and_name(_, _, _, _)
parent_api_hhfile_and_name(parentsplit, i, parent_api_hhfile, parent_api_namespace_and_name) ==
    IF i = Len(parentsplit)
    THEN [name |-> parent_api_namespace_and_name \o "_API",
          header |-> parent_api_hhfile \o "_API.hh"]
    ELSE LET hhfile == IF i = 2 THEN parent_api_hhfile \o "_api/auto_generated_api"
                       ELSE parent_api_hhfile
             name   == IF i = 2 THEN parent_api_namespace_and_name \o "_api::auto_generated_api"
                       ELSE parent_api_namespace_and_name
         IN  parent_api_hhfile_and_name(parentsplit, i + 1,
                                        hhfile \o "/" \o parentsplit[i + 1],
                                        name \o "::" \o parentsplit[i + 1])

\* Lines 1975-1980 and 2016-2019: the start of the path, and the include
\* line with that start cut off again.
ParentApiWrapper_CutsOnlySrc(parentsplit) ==
    LET start == IF parentsplit[1] = project_name THEN "src"
                 ELSE "headers/" \o parentsplit[1] \o "/headers"
        r == parent_api_hhfile_and_name(parentsplit, 1, start, parentsplit[1])
    IN  [name |-> r.name,
         header |-> "#include <" \o SubSeq(r.header, 5, Len(r.header)) \o ">"]

ParentApiWrapper(parentsplit) ==
    LET start == IF parentsplit[1] = project_name THEN "src"
                 ELSE "headers/" \o parentsplit[1] \o "/headers"
        r == parent_api_hhfile_and_name(parentsplit, 1, start, parentsplit[1])
        cut == IF SubSeq(r.header, 1, 4) = "src/" THEN 4 ELSE 17 + Len(parentsplit[1])
    IN  [name |-> r.name,
         header |-> "#include <" \o SubSeq(r.header, cut + 1, Len(r.header)) \o ">"]

\* Lines 656-667: iteration i of the loop (from 0).
RECURSIVE generate_cpp_namespace_singleline(_, _, _)
generate_cpp_namespace_singleline(namespace, i, outstr) ==
    IF i = Len(namespace) THEN outstr
    ELSE LET sep == IF i = 0 THEN "" ELSE "::"
             out == outstr \o sep \o namespace[i + 1]
         IN  generate_cpp_namespace_singleline(namespace, i + 1,
                 IF i = 1 THEN out \o "_api::auto_generated_api" ELSE out)

\* Lines 276-287: the directory of the wrapper; range( 2, len(namespace) ).
RECURSIVE prepare_directory(_, _, _)
prepare_directory(namespace, i, dirname) ==
    IF i >= Len(namespace) THEN dirname
    ELSE prepare_directory(namespace, i + 1, dirname \o namespace[i + 1] \o "/")

\* Lines 2065 and 2130: the class apiclassname is declared in the namespace
\* of generate_cpp_namespace_singleline and written to dirname +
\* apiclassname + ".hh"; the directory src is the root of the include paths.
WrittenWrapper(namespace, classname) ==
    LET apiclassname == classname \o "_API"
        dirname == prepare_directory(namespace, 2, "src/" \o namespace[2] \o "_api/auto_generated_api/")
        fname == dirname \o apiclassname \o ".hh"
    IN  [name |-> generate_cpp_namespace_singleline(namespace, 0, "") \o "::" \o apiclassname,
         header |-> "#include <" \o SubSeq(fname, 5, Len(fname)) \o ">"]

InitNames ==
    /\ qualified_name \in QualifiedNames
    /\ wrapper_of = [translator |-> NoWrapper, lineage |-> NoWrapper, emitter |-> NoWrapper]

IdleNames ==
    /\ qualified_name = << >>
    /\ wrapper_of = [translator |-> NoWrapper, lineage |-> NoWrapper, emitter |-> NoWrapper]

\* correct_masala_types meets the class in a signature of another class.
TranslatorNamesWrapper ==
    /\ qualified_name # << >>
    /\ wrapper_of.translator = NoWrapper
    /\ LET r == api_classname_and_filename(qualified_name, 0, "", "")
       IN  wrapper_of' = [wrapper_of EXCEPT
                             !.translator = [name |-> r.name, header |-> IncludeLine(r.header)]]
    /\ UNCHANGED qualified_name
    /\ UNCHANGED notNamesVars

\* get_api_class_include_and_classname meets the class as the parent of
\* another class.
LineageNamesParentWrapper ==
    /\ qualified_name # << >>
    /\ wrapper_of.lineage = NoWrapper
    /\ wrapper_of' = [wrapper_of EXCEPT !.lineage = ParentApiWrapper(qualified_name)]
    /\ UNCHANGED qualified_name
    /\ UNCHANGED notNamesVars

\* The main loop writes the wrapper of the class: ModuleNamespace is all of
\* the qualified name but its last segment, Module is the last (2373-2375).
EmitterWritesWrapper ==
    /\ qualified_name # << >>
    /\ wrapper_of.emitter = NoWrapper
    /\ wrapper_of' = [wrapper_of EXCEPT !.emitter =
           WrittenWrapper(SubSeq(qualified_name, 1, Len(qualified_name) - 1),
                          qualified_name[Len(qualified_name)])]
    /\ UNCHANGED qualified_name
    /\ UNCHANGED notNamesVars

NextNames ==
    \/ TranslatorNamesWrapper
    \/ LineageNamesParentWrapper
    \/ EmitterWritesWrapper

-----------------------------------------------------------------------------
(* The include block: generate_additional_includes.                        *)

\* dirname_short + apiclassname of the wrapper being written (lines 2120, 2183).
original_api_include == "lib_api/auto_generated_api/Foo_API"

\* What the routines that fill the accumulator append: headers of wrappers
\* and of classes without wrapper, and includes written with their brackets.
AccumulatorEntries ==
    { original_api_include, "lib_api/auto_generated_api/Bar_API", "lib/NoApi",
      "<vector>", "<utility>", "<base/MasalaObjectAPI.hh>" }

\* The accumulators of MaxIncludes entries or fewer; nothing keeps the
\* bracketed entries from being appended twice.
RECURSIVE AccumulatorsUpTo(_)
AccumulatorsUpTo(n) ==
    IF n = 0 THEN { << >> }
    ELSE AccumulatorsUpTo(n - 1)
         \cup { Append(a, e) : a \in { b \in AccumulatorsUpTo(n - 1) : Len(b) = n - 1 },
                               e \in AccumulatorEntries }

\* entry.startswith( "<" ).
StartsWithBracket(entry) == Len(entry) > 0 /\ SubSeq(entry, 1, 1) = "<"

\* Lines 1500-1503.
FwdStr(fwd) == IF fwd THEN ".fwd" ELSE ""

\* Lines 1507-1511: is a line written for the entry?
IsWritten_OwnHeaderToo(entry, fwdstr, original) ==
    ~(StartsWithBracket(entry) /\ fwdstr = "")

IsWritten(entry, fwdstr, original) ==
    /\ entry # original
    /\ ~(StartsWithBracket(entry) /\ fwdstr = "")

\* Lines 1508-1514.
NewEntry(entry, fwdstr) ==
    IF StartsWithBracket(entry) THEN "#include " \o entry
    ELSE "#include <" \o entry \o fwdstr \o ".hh>"

\* Lines 1506-1521: the loop from entry i on; outstr is the lines of added,
\* one after the other.
RECURSIVE generate_additional_includes(_, _, _, _, _)
generate_additional_includes(includes, fwdstr, original, i, added) ==
    IF i > Len(includes) THEN added
    ELSE IF IsWritten(includes[i], fwdstr, original)
            /\ ~(\E k \in 1..Len(added) : added[k] = NewEntry(includes[i], fwdstr))
    THEN generate_additional_includes(includes, fwdstr, original, i + 1,
                                      Append(added, NewEntry(includes[i], fwdstr)))
    ELSE generate_additional_includes(includes, fwdstr, original, i + 1, added)

InitInc ==
    /\ accumulator \in AccumulatorsUpTo(MaxIncludes)
    /\ generate_fwd_includes = FALSE
    /\ include_block = << >>
    /\ ipc = "ready"

IdleInc ==
    /\ accumulator = << >>
    /\ generate_fwd_includes = FALSE
    /\ include_block = << >>
    /\ ipc = "idle"

\* Line 2120: the block of the header file.
WriteHeaderIncludes ==
    /\ ipc = "ready"
    /\ generate_fwd_includes' = TRUE
    /\ include_block' = generate_additional_includes(accumulator, FwdStr(TRUE),
                                                     original_api_include, 1, << >>)
    /\ ipc' = "written"
    /\ UNCHANGED accumulator
    /\ UNCHANGED notIncVars

\* Line 2183: the block of the implementation file.
WriteCcIncludes ==
    /\ ipc = "ready"
    /\ generate_fwd_includes' = FALSE
    /\ include_block' = generate_additional_includes(accumulator, FwdStr(FALSE),
                                                     original_api_include, 1, << >>)
    /\ ipc' = "written"
    /\ UNCHANGED accumulator
    /\ UNCHANGED notIncVars

NextInc ==
    \/ WriteHeaderIncludes
    \/ WriteCcIncludes

-----------------------------------------------------------------------------
(* Specifications.                                                         *)

Init == InitMain /\ IdleDeprecation /\ IdleLineage /\ IdleRole /\ IdleTranslate /\ IdleBody /\ IdleRuntime /\ IdleRerun
    /\ IdleSite
    /\ IdleRef
    /\ IdleProto
    /\ IdleNames
    /\ IdleInc
Spec == Init /\ [][Next]_vars

InitDep == IdleMain /\ InitDeprecation /\ IdleLineage /\ IdleRole /\ IdleTranslate /\ IdleBody /\ IdleRuntime /\ IdleRerun
    /\ IdleSite
    /\ IdleRef
    /\ IdleProto
    /\ IdleNames
    /\ IdleInc
SpecDeprecation == InitDep /\ [][NextDep]_vars

InitLin == IdleMain /\ IdleDeprecation /\ InitLineage /\ IdleRole /\ IdleTranslate /\ IdleBody /\ IdleRuntime /\ IdleRerun
    /\ IdleSite
    /\ IdleRef
    /\ IdleProto
    /\ IdleNames
    /\ IdleInc
SpecLineage == InitLin /\ [][NextLin]_vars

\* The interpreter runs the walk to its end: no call or return waits forever.
SpecLineageFair == SpecLineage /\ WF_vars(NextLin)

InitRol == IdleMain /\ IdleDeprecation /\ IdleLineage /\ InitRole /\ IdleTranslate /\ IdleBody /\ IdleRuntime /\ IdleRerun
    /\ IdleSite
    /\ IdleRef
    /\ IdleProto
    /\ IdleNames
    /\ IdleInc
SpecRole == InitRol /\ [][NextRole]_vars

\* The interpreter runs an ancestry walk to its end as well.
SpecRoleFair == SpecRole /\ WF_vars(NextRole)

InitTrans == IdleMain /\ IdleDeprecation /\ IdleLineage /\ IdleRole /\ InitTranslate /\ IdleBody /\ IdleRuntime /\ IdleRerun
    /\ IdleSite
    /\ IdleRef
    /\ IdleProto
    /\ IdleNames
    /\ IdleInc
SpecTranslate == InitTrans /\ [][NextTrans]_vars

InitBod ==
    IdleMain /\ IdleDeprecation /\ IdleLineage /\ IdleRole /\ IdleTranslate /\ InitBody /\ IdleRuntime
    /\ IdleRerun
    /\ IdleSite
    /\ IdleRef
    /\ InitProto
    /\ IdleNames
    /\ IdleInc
SpecBody == InitBod /\ [][NextBody]_vars

InitRun ==
    IdleMain /\ IdleDeprecation /\ IdleLineage /\ IdleRole /\ IdleTranslate /\ IdleBody /\ InitRuntime
    /\ IdleRerun
    /\ IdleSite
    /\ IdleRef
    /\ IdleProto
    /\ IdleNames
    /\ IdleInc
SpecRuntime == InitRun /\ [][NextRun]_vars

\* The entry point, run on a directory that holds anything, and run again.
InitRer ==
    InitMain /\ IdleDeprecation /\ IdleLineage /\ IdleRole /\ IdleTranslate /\ IdleBody /\ IdleRuntime
    /\ InitRerun
    /\ IdleSite
    /\ IdleRef
    /\ IdleProto
    /\ IdleNames
    /\ IdleInc
SpecRerun == InitRer /\ [][NextRerun]_vars

InitSit ==
    IdleMain /\ IdleDeprecation /\ IdleLineage /\ IdleRole /\ IdleTranslate /\ IdleBody /\ IdleRuntime
    /\ IdleRerun
    /\ InitSite
    /\ IdleRef
    /\ IdleProto
    /\ IdleNames
    /\ IdleInc
SpecSite == InitSit /\ [][NextSite]_vars

InitRe ==
    IdleMain /\ IdleDeprecation /\ IdleLineage /\ IdleRole /\ IdleTranslate /\ IdleBody /\ IdleRuntime
    /\ IdleRerun
    /\ IdleSite
    /\ InitRef
    /\ IdleProto
    /\ IdleNames
    /\ IdleInc
SpecRef == InitRe /\ [][NextRef]_vars

InitNam ==
    IdleMain /\ IdleDeprecation /\ IdleLineage /\ IdleRole /\ IdleTranslate /\ IdleBody /\ IdleRuntime
    /\ IdleRerun
    /\ IdleSite
    /\ IdleRef
    /\ IdleProto
    /\ InitNames
    /\ IdleInc

SpecNames == InitNam /\ [][NextNames]_vars

InitIn ==
    IdleMain /\ IdleDeprecation /\ IdleLineage /\ IdleRole /\ IdleTranslate /\ IdleBody /\ IdleRuntime
    /\ IdleRerun
    /\ IdleSite
    /\ IdleRef
    /\ IdleProto
    /\ IdleNames
    /\ InitInc

SpecInc == InitIn /\ [][NextInc]_vars

-----------------------------------------------------------------------------
(* Properties of the program entry point (checked under Spec).             *)

Classes == 1..Len(manifest)

IsProtectedPlugin(i) ==
    manifest[i].Is_Plugin_Class /\ manifest[i].Has_Protected_Constructors

IsPublicPlugin(i) ==
    manifest[i].Is_Plugin_Class /\ ~manifest[i].Has_Protected_Constructors

Occurs(e, list) == \E p \in 1..Len(list) : list[p] = e

WrittenAt(kind) == { w \in 1..Len(written) : written[w].kind = kind }

WrittenFor(kind, i) ==
    { w \in 1..Len(written) : written[w].kind = kind /\ written[w].class = i }

\* The iteration of the loop for class i ran to its end.
Processed(i) == idx > i

\* The creators of the public plugin classes among the first k classes, in
\* manifest order.
RECURSIVE PublicCreators(_)
PublicCreators(k) ==
    IF k = 0 THEN << >>
    ELSE PublicCreators(k - 1) \o
         (IF IsPublicPlugin(k) THEN << determine_creator_name_namespace_filename(k) >> ELSE << >>)

\* C1: a plugin class with protected constructors is never in plugins_list
\* nor in the creators of a written registration file, and once its
\* iteration has ended its creator forward declaration, header and
\* implementation have been written, the implementation with the
\* instantiation body compiled out.
C1_ProtectedPluginNeverRegistered ==
    \A i \in Classes :
        IsProtectedPlugin(i) =>
            /\ ~Occurs(determine_creator_name_namespace_filename(i), plugins_list)
            /\ \A w \in WrittenAt("registration_cc") :
                   ~Occurs(determine_creator_name_namespace_filename(i), written[w].creators)
            /\ Processed(i) =>
                   /\ WrittenFor("creator_fwd", i) # {}
                   /\ WrittenFor("creator_hh", i) # {}
                   /\ \E w \in WrittenFor("creator_cc", i) : written[w].body = "compiled_out"
                   /\ \A w \in WrittenFor("creator_cc", i) : written[w].body = "compiled_out"

\* A run ended with the registration pair written for a public plugin class
\* while a protected plugin class got its creator triplet.
C1_Witness ==
    /\ pc = "done"
    /\ WrittenAt("registration_cc") # {}
    /\ \E i \in Classes : IsProtectedPlugin(i) /\ WrittenFor("creator_cc", i) # {}

\* C2: the registration pair is written at most once; a finished run has
\* written it iff some plugin class with public constructors is in the
\* manifest; when it is written the loop is over and the wrapper files of
\* every class and the creator triplet of every plugin class precede it; and
\* it lists the creators of the public plugin classes, each once, in
\* manifest order.
C2_RegistrationOnceAfterAllInOrder ==
    /\ Cardinality(WrittenAt("registration_hh")) <= 1
    /\ Cardinality(WrittenAt("registration_cc")) <= 1
    /\ pc = "done" =>
           (WrittenAt("registration_cc") # {} <=> \E i \in Classes : IsPublicPlugin(i))
    /\ pc = "done" =>
           (WrittenAt("registration_hh") # {} <=> \E i \in Classes : IsPublicPlugin(i))
    /\ \A w \in WrittenAt("registration_hh") \cup WrittenAt("registration_cc") :
           /\ pc = "done"
           /\ \A i \in Classes :
                  /\ \A k \in {"fwd", "hh", "cc"} : \E v \in WrittenFor(k, i) : v < w
                  /\ manifest[i].Is_Plugin_Class =>
                         \A k \in {"creator_fwd", "creator_hh", "creator_cc"} :
                             \E v \in WrittenFor(k, i) : v < w
    /\ \A w \in WrittenAt("registration_cc") :
           written[w].creators = PublicCreators(Len(manifest))

\* A finished run registered two creators.
C2_Witness ==
    /\ pc = "done"
    /\ \E w \in WrittenAt("registration_cc") : Len(written[w].creators) = 2

-----------------------------------------------------------------------------
(* Properties of the deprecation gating (checked under SpecDeprecation).   *)

\* A version as one number, so that the order of the numbers is the
\* lexicographic order of the (major, minor) pairs drawn.
VersionNumber(v) == v[1] * (MaxMinor + 1) + v[2]

Marked(i) ==
    fxns[i].Will_Be_Deprecated = "true" /\ fxns[i].Deprecation_Version # Absent

\* The project version is at or past the removal version of entry i.
AtOrPastRemoval(i) ==
    /\ Marked(i)
    /\ VersionNumber(project_version) >= VersionNumber(fxns[i].Deprecation_Version)

\* The project version is at or past the warning version of entry i and
\* before its removal version.
InWarningWindow(i) ==
    /\ Marked(i)
    /\ fxns[i].Deprecation_Warning_Version # Absent
    /\ VersionNumber(project_version) >= VersionNumber(fxns[i].Deprecation_Warning_Version)
    /\ VersionNumber(project_version) < VersionNumber(fxns[i].Deprecation_Version)

LinesOf(out, what, i) == { p \in 1..Len(out) : out[p].tok = what /\ out[p].fxn = i }

\* Entry i is in the text once, directly between #ifndef and #endif.
Guarded(out, what, i) ==
    /\ Cardinality(LinesOf(out, what, i)) = 1
    /\ \A p \in LinesOf(out, what, i) :
           /\ p > 1 /\ out[p - 1].tok = "#ifndef"
           /\ p < Len(out) /\ out[p + 1].tok = "#endif"

\* Entry i is in the text once, with no #ifndef before it and no #endif after.
Unguarded(out, what, i) ==
    /\ Cardinality(LinesOf(out, what, i)) = 1
    /\ \A p \in LinesOf(out, what, i) :
           /\ p > 1 => out[p - 1].tok # "#ifndef"
           /\ p < Len(out) => out[p + 1].tok # "#endif"

\* Entries the prototype loop, and the implementation loop, have been through.
InHeader == 1..(hh_pos - 1)
InImplementation == 1..(cc_pos - 1)

ClaimedStatus(i) ==
    IF AtOrPastRemoval(i) THEN DEPRECATED
    ELSE IF InWarningWindow(i) THEN DEPRECATION_WARNING
    ELSE INTACT

\* C5: the status computed for an entry is DEPRECATED iff the entry is marked
\* and the project version is lexicographically at or past the removal
\* version, DEPRECATION_WARNING iff it is marked, has a warning version and
\* warning <= project < removal, INTACT otherwise; and an INTACT entry is
\* emitted with no guard.
C5_StatusLexicographicAndIntactUnguarded ==
    /\ \A i \in InHeader :
           /\ deprecation_status.hh[i] = ClaimedStatus(i)
           /\ deprecation_status.hh[i] = INTACT => Unguarded(hh_out, "prototype", i)
    /\ \A i \in InImplementation :
           /\ deprecation_status.cc[i] = ClaimedStatus(i)
           /\ deprecation_status.cc[i] = INTACT => Unguarded(cc_out, "implementation", i)

\* Both loops went through a marked entry that is before its warning
\* version, in a minor version of the same major version.
C5_Witness ==
    /\ cc_state = "returned"
    /\ \E i \in InHeader \cap InImplementation :
           /\ Marked(i)
           /\ fxns[i].Deprecation_Warning_Version # Absent
           /\ project_version[1] = fxns[i].Deprecation_Warning_Version[1]
           /\ project_version[2] < fxns[i].Deprecation_Warning_Version[2]
           /\ deprecation_status.cc[i] = INTACT

-----------------------------------------------------------------------------
(* Properties of the lineage resolution (checked under SpecLineage, the    *)
(* termination under SpecLineageFair).                                     *)

\* The ancestors of class c that expose a wrapper: a non-pure override of
\* get_api_definition() in their header.
WrappedAncestors(c) == { k \in (c + 1)..chain.n : chain.override[k] = "concrete" }

Nearest(S) == CHOOSE k \in S : \A j \in S : k <= j

\* The call for class c has returned.
Returned(c) == c \in DOMAIN ret

\* The call for class c raised.
Raised(c) == lpc = "error" /\ (cur = c \/ Occurs(c, stack))

\* The names the role flags can select as root capability wrapper.
RootCapabilityWrappers == { RootCapabilityName(r) : r \in Roles }

\* C6: for a class with a wrapped ancestor, the call returns, and it returns
\* the include and the wrapper name of the nearest wrapped ancestor, with
\* is_derived = TRUE.
C6_NearestWrappedAncestor ==
    \A c \in 1..chain.n :
        (lpc # "idle" /\ WrappedAncestors(c) # {}) =>
            /\ ~Raised(c)
            /\ Returned(c) =>
                   /\ ret[c].include = ParentApiInclude(Nearest(WrappedAncestors(c)))
                   /\ ret[c].base = ParentApiName(Nearest(WrappedAncestors(c)))
                   /\ ret[c].is_derived = TRUE

RoleWrapper(r) ==
    CASE ~r.is_plugin_class -> "masala::base::MasalaObjectAPI"
      [] r.is_plugin_class /\ r.is_engine_class ->
             "masala::base::managers::engine::MasalaEngineAPI"
      [] r.is_plugin_class /\ ~r.is_engine_class /\ r.is_data_representation_class ->
             "masala::base::managers::engine::MasalaDataRepresentationAPI"
      [] r.is_plugin_class /\ ~r.is_engine_class /\ ~r.is_data_representation_class
           /\ r.is_file_interpreter_class ->
             "masala::base::managers::file_interpreter::MasalaFileInterpreterAPI"
      [] OTHER -> "masala::base::managers::plugin_module::MasalaPluginAPI"

\* C8: the call for a class with no base clause, or whose base is a root
\* marker, does not fail, and returns the root capability wrapper of the
\* role as base and as root, with is_derived = FALSE.
C8_NoBaseOrRootMarkerGivesRoleRoot ==
    \A c \in 1..chain.n :
        (lpc # "idle" /\ ParentKind(c) \in {"none", "marker"}) =>
            /\ ~(lpc = "error" /\ cur = c)
            /\ Returned(c) =>
                   /\ ret[c].base = <<"root", RoleWrapper(roles)>>
                   /\ ret[c].root = <<"root", RoleWrapper(roles)>>
                   /\ ret[c].is_derived = FALSE

\* C9: when the immediate base p of class c exposes a wrapper, the root
\* returned for c is the root returned for p, unless that is one of the
\* root capability wrappers, in which case it is the wrapper of p.
C9_RootInheritedUnlessGeneric ==
    \A c \in 1..chain.n :
        (lpc # "idle" /\ Returned(c) /\ ParentKind(c) = "class"
            /\ chain.override[ParentOf(c)] = "concrete") =>
            /\ Returned(ParentOf(c))
            /\ ret[c].root =
                   IF ret[ParentOf(c)].root \in RootCapabilityWrappers
                     THEN ParentApiName(ParentOf(c))
                     ELSE ret[ParentOf(c)].root

\* The outermost call returned for a class with two wrapped ancestors: its
\* base inherited a root capability wrapper and replaced it, the class
\* itself inherited the replacement.
C9_Witness ==
    /\ lpc = "done"
    /\ chain.n = 3
    /\ chain.override[2] = "concrete"
    /\ chain.override[3] = "concrete"
    /\ ret[3].root \in RootCapabilityWrappers
    /\ ret[2].root = ParentApiName(3)
    /\ ret[1].root = ParentApiName(3)

NoDuplicates(seq) == \A a, b \in 1..Len(seq) : seq[a] = seq[b] => a = b

\* C10: on a chain of N classes that ends at a root marker the walk makes
\* at most N calls, none for a class it already visited, never raises, and
\* returns to its caller.
C10_TerminatesWithinChainLength ==
    (chain.top \in RootMarkers) =>
        /\ [](steps <= chain.n /\ NoDuplicates(visited) /\ lpc # "error")
        /\ <>(lpc = "done")

\* The walk returned after one call per class of a chain of three classes
\* that alternates a wrapped and an unwrapped ancestor.
C10_Witness ==
    /\ lpc = "done"
    /\ chain.n = 3
    /\ chain.top \in RootMarkers
    /\ chain.override[2] = "concrete"
    /\ chain.override[3] = "none"
    /\ steps = 3

-----------------------------------------------------------------------------
(* Properties of the role classification (checked under SpecRole, the      *)
(* termination under SpecRoleFair).                                        *)

RoleWalkEnded == rpc \in {"returned", "AssertionError"}

\* C11: every ancestry walk terminates for every finite set of class
\* declarations, a set whose base declarations form a cycle included: each
\* call reads a declaration file no earlier call of the walk has read, the
\* calls never nest until the interpreter gives up, and the walk ends by
\* returning or by a failed assertion.
C11_EveryAncestryWalkTerminates ==
    /\ [](NoDuplicates(rvisited) /\ rpc # "RecursionError")
    /\ <>RoleWalkEnded

\* The marker is named as a base by the last declaration of the chain.
MarkerOnBaseChain(marker) == decls.top = marker

\* C12: is_plugin_or_noapi_class returns true iff the marker it seeks (the
\* plugin marker when seek_plugin, the no-API marker otherwise) is a base
\* somewhere along the base chain of the class, and it returns false, without
\* failing, when the chain ends at a class with no base clause.
C12_TrueIffSoughtMarkerOnChain ==
    walk.routine = "is_plugin_or_noapi_class" =>
        /\ rpc = "returned" =>
              rresult = IF walk.seek_plugin THEN MarkerOnBaseChain("MasalaPlugin")
                        ELSE MarkerOnBaseChain("MasalaNoAPIObject")
        /\ decls.top = "none" =>
              /\ rpc \notin {"AssertionError", "RecursionError"}
              /\ rpc = "returned" => rresult = FALSE

\* A walk seeking the plugin marker returned True after three declarations,
\* one of them with the colon against the class name.
C12_Witness ==
    /\ walk = [routine |-> "is_plugin_or_noapi_class", seek_plugin |-> TRUE]
    /\ decls.n = 3 /\ decls.top = "MasalaPlugin"
    /\ decls.colon[2] = "unspaced"
    /\ rpc = "returned" /\ rresult = TRUE
    /\ rvisited = <<1, 2, 3>>

-----------------------------------------------------------------------------
(* Properties of the type translation (checked under SpecTranslate).       *)

\* The wrappers of the project classes and their headers, written out.
FooWrapper ==
    <<Seg("proj"), [name |-> "lib", suffix |-> "_api"], Seg("auto_generated_api"),
      [name |-> "Foo", suffix |-> "_API"]>>
FooWrapperHeader == Tail(FooWrapper)
BarWrapper ==
    <<Seg("masala"), [name |-> "core", suffix |-> "_api"], Seg("auto_generated_api"),
      [name |-> "Bar", suffix |-> "_API"]>>
BarWrapperHeader == Tail(BarWrapper)

Holds(includes, x) == \E i \in 1..Len(includes) : includes[i] = x

IsPrefixOf(a, b) == Len(a) <= Len(b) /\ SubSeq(b, 1, Len(a)) = a

ScenarioB == Container1("vector", Container2("pair", <<IntType>>, <<FooClass>>))

\* C13: after any sequence of calls that share one accumulator, the
\* accumulator holds each include at most once, in order of first discovery
\* (what it held before a call stays in front); a sequence of pairs of int
\* and a project class records the sequence include, the pair include and
\* the wrapper header once each, in that order; a container nested in the
\* same container records its include once.
C13_AccumulatorDeduplicatedInOrder ==
    /\ NoDuplicates(includes_list)
    /\ IsPrefixOf(includes_before, includes_list)
    /\ (tpc = "returned" /\ type_in = ScenarioB /\ includes_before = << >>) =>
           includes_list = <<Tok("<vector>"), Tok("<utility>"), FooWrapperHeader>>

\* The expression with every container named in its std:: form and every
\* project class replaced by its wrapper, token by token.
RenamedToken(tok) ==
    IF tok = FooClass THEN FooWrapper
    ELSE IF tok = BarClass THEN BarWrapper
    ELSE IF tok \in {Tok("vector"), Tok("pair"), Tok("map")} THEN <<Seg("std")>> \o tok
    ELSE tok

Renamed(expr) == [i \in 1..Len(expr) |-> RenamedToken(expr[i])]

\* C14: for every expression built from recognized containers, a pair or map
\* whose arguments are themselves multi-argument containers included, the
\* call returns and its result has the nesting and the argument order of the
\* expression, with nothing changed but the project types, renamed to their
\* wrappers.
C14_NestingAndOrderPreserved ==
    (tcalls > 0 /\ type_in \in TypeExprsUpTo(MaxContainers)) =>
        /\ tpc = "returned"
        /\ type_out = Renamed(type_in)

\* C15: a project type that is not a wrapper is rewritten to the qualified
\* name of its wrapper and the wrapper's header is recorded, unless its
\* ancestry reaches the no-API marker, in which case it is returned
\* unchanged; a type that is a wrapper already is returned unchanged.
C15_ProjectTypeRewrittenUnlessNoApiOrWrapped ==
    (tcalls > 0 /\ tpc = "returned" /\ Len(type_in) > 0) =>
        /\ type_in[1] = FooClass =>
              /\ type_out = <<FooWrapper>> \o Tail(type_in)
              /\ Holds(includes_list, FooWrapperHeader)
        /\ type_in[1] = BarClass =>
              /\ type_out = <<BarWrapper>> \o Tail(type_in)
              /\ Holds(includes_list, BarWrapperHeader)
        /\ type_in[1] = NoApiClass => type_out = type_in
        /\ type_in[1] = FooApiClass => type_out = type_in

\* "proj::lib::Foo const &" came back as the wrapper's name followed by
\* "const &", after a call that had left the no-API class alone.
C15_Witness ==
    /\ tpc = "returned" /\ tcalls = 2
    /\ type_in = <<FooClass, Tok("const"), Tok("&")>>
    /\ type_out = <<FooWrapper, Tok("const"), Tok("&")>>
    /\ includes_list = <<<<Seg("lib"), Seg("NoApi")>>, FooWrapperHeader>>

-----------------------------------------------------------------------------
(* Properties of the implementation of one entry (checked under SpecBody)  *)
(* and of the written wrapper at run time (checked under SpecRuntime).     *)

PositionsOf(text, statements) == {i \in 1..Len(text) : text[i] \in statements}

\* C16: the body of a getter, setter or work function acquires the guard
\* exactly once, before the delegated call, unless the entry is flagged
\* Triggers_No_Mutex_Lock, and then not at all; the body of an entry flagged
\* Always_Returns_Nullptr has no guard acquisition and no delegated call,
\* whatever its other flags.
C16_GuardOnceBeforeCallUnlessNoLock ==
    bpc = "emitted" =>
        LET locks == PositionsOf(body_out, LockStatements)
            calls == PositionsOf(body_out, CallStatements)
        IN  IF body_fxn.Always_Returns_Nullptr
            THEN locks = {} /\ calls = {}
            ELSE /\ Cardinality(calls) = 1
                 /\ IF body_fxn.Triggers_No_Mutex_Lock
                    THEN locks = {}
                    ELSE /\ Cardinality(locks) = 1
                         /\ \A l \in locks, c \in calls : l < c

\* The body of a deprecated work function of a derived wrapper that returns
\* a plugin through the plugin module manager: one lock, then the call.
C16_Witness ==
    /\ bpc = "emitted"
    /\ body_fxn.fxn_type = "WORKFXN" /\ body_fxn.Output = "plugin_ptr"
    /\ ~body_fxn.Always_Returns_Nullptr /\ ~body_fxn.Triggers_No_Mutex_Lock
    /\ body_out = <<IFNDEF, SIGNATURE, LOCK_DERIVED, RETURNOBJ, RETURN_IF_SAME_CLASS,
                    RETURN_ENCAPSULATED, CLOSE, ENDIF>>

\* C17: on one wrapper instance the delegated calls of two entries that are
\* not flagged no-lock never overlap, whichever of the wrapper's classes the
\* entries were written for: a caller inside such a call holds the one guard
\* of the instance.
C17_LockedEntriesNeverOverlap ==
    /\ \A t, u \in DOMAIN callers :
          (t # u /\ callers[t].in_call /\ callers[u].in_call) =>
              (callers[t].no_lock \/ callers[u].no_lock)
    /\ \A t \in DOMAIN callers :
          (callers[t].in_call /\ ~callers[t].no_lock) =>
              \A g \in DOMAIN guards : guards[g] = t

\* One caller is inside the delegated call of an entry written for the
\* derived wrapper while the other stands at the lock statement of an entry
\* written for the wrapper it derives from.
C17_Witness ==
    /\ wpc = "run"
    /\ callers[1].in_call /\ ~callers[1].no_lock
    /\ \E i \in 1..Len(callers[1].body) : callers[1].body[i] = LOCK_DERIVED
    /\ Running(2) /\ Statement(2) = LOCK_MEMBER
    /\ guards["api_mutex_"] = 1

-----------------------------------------------------------------------------
(* Properties of a run that fails (checked under Spec).                    *)

\* The element at position j raises when the loop reaches it: its namespace,
\* its header or its implementation file does, or, for a plugin class, its
\* creator header.
FailsWhenReached(j) ==
    \/ manifest[j].fails \in {"namespace", "header", "cc"}
    \/ manifest[j].fails = "creator" /\ manifest[j].Is_Plugin_Class = TRUE

\* The files of a class that are written before the given point raises.
WrittenBeforeFailure(point) ==
    CASE point = "namespace" -> {}
      [] point = "header"    -> {"fwd"}
      [] point = "cc"        -> {"fwd", "hh"}
      [] point = "creator"   -> {"fwd", "hh", "cc", "creator_fwd"}

RegistrationKinds == {"registration_hh", "registration_cc"}

\* C18: when a class fails, the run ends in failure at that point: no file of
\* a later class of the manifest is written, of the failing class only the
\* files that precede the failure exist (so no creator file is written after
\* it), the registration pair is not written, and the run never completes.
C18_FailureAbortsTheRun ==
    /\ pc = "aborted" => FailsWhenReached(idx)
    /\ \A j \in 1..Len(manifest) :
          FailsWhenReached(j) =>
             /\ pc # "done"
             /\ idx <= j
             /\ \A k \in 1..Len(written) :
                   /\ written[k].kind \notin RegistrationKinds
                   /\ written[k].class <= j
                   /\ written[k].class = j =>
                         written[k].kind \in WrittenBeforeFailure(manifest[j].fails)

\* The creator header of the first of two plugin classes raises after the
\* creator's forward declarations were written: the run is over, with the four
\* files of the first class and nothing else.
C18_Witness ==
    /\ pc = "aborted" /\ idx = 1 /\ Len(manifest) = 2
    /\ manifest[1].fails = "creator" /\ manifest[2].Is_Plugin_Class = TRUE
    /\ manifest[2].fails = "none"
    /\ Len(written) = 4 /\ written[4].kind = "creator_fwd"
    /\ generate_registration_function = TRUE

\* C19 (as stated): if any element of the manifest breaks the rule on the
\* first two segments of the namespace, no file of any class is ever written.
C19_NamespaceRuleEnforcedOnLoad ==
    (\E j \in 1..Len(manifest) : manifest[j].fails = "namespace") => written = << >>

\* C19 (as the code has it): the rule is checked for each element when the
\* loop reaches it, so that no file of the offending class or of a later one
\* is written, while the files of the classes before it are.
C19_NamespaceRuleEnforcedPerClass ==
    \A j \in 1..Len(manifest) :
        manifest[j].fails = "namespace" =>
           /\ idx <= j
           /\ \A k \in 1..Len(written) :
                 written[k].kind \notin RegistrationKinds /\ written[k].class < j
           /\ (pc = "aborted" /\ idx = j) =>
                 \A i \in 1..(j - 1) :
                     \E k \in 1..Len(written) :
                         written[k].kind = "cc" /\ written[k].class = i

\* The second class is outside the library's namespace: the run ends there,
\* after the six files of the first class, a plugin, were written.
C19_Witness ==
    /\ pc = "aborted" /\ idx = 2
    /\ manifest[2].fails = "namespace"
    /\ manifest[1].Is_Plugin_Class = TRUE
    /\ Len(written) = 6

-----------------------------------------------------------------------------
(* Properties of two runs on one manifest (checked under SpecRerun).       *)

RunEnded == pc \in {"done", "aborted"}

-----------------------------------------------------------------------------
(* Properties of the routines that read a class's base (SpecRole).         *)

\* The call for class c looks for the declaration of c in the file of c:
\* is_masala_plugin_class does not when the manifest answers for c.
LooksForDeclaration(c) ==
    ~(walk.routine = "is_masala_plugin_class" /\ InManifest(c))

\* C21: a routine that is run for a class whose declaration is not in its
\* declaration file never returns a value: the run aborts there.
C21_UnlocatableClassAborts ==
    rpc = "returned" => ~(BaseKind(rcur) = "missing" /\ LooksForDeclaration(rcur))

-----------------------------------------------------------------------------
(* Properties of the role chosen for one class (checked under SpecSite).   *)

\* The role that a choice stands for.
RoleChosen(choice) ==
    CASE choice \in { "get_inner_engine_object", "engine_creator_fwdfile_template",
                      "engine_creator_hhfile_template", "engine_creator_ccfile_template",
                      "masala::base::managers::engine::MasalaEngineAPI" }
             -> "engine"
      [] choice \in { "get_inner_data_representation_object",
                      "data_rep_creator_fwdfile_template", "data_rep_creator_hhfile_template",
                      "data_rep_creator_ccfile_template",
                      "masala::base::managers::engine::MasalaDataRepresentationAPI" }
             -> "data_representation"
      [] choice \in { "get_inner_file_interpreter_object",
                      "file_interpreter_creator_fwdfile_template",
                      "file_interpreter_creator_hhfile_template",
                      "file_interpreter_creator_ccfile_template",
                      "masala::base::managers::file_interpreter::MasalaFileInterpreterAPI" }
             -> "file_interpreter"
      [] OTHER -> "plain"

\* The places where one of the four roles is chosen (the stubs written with
\* the setters only tell a data representation from the rest).
RoleSites == {k \in 1..Len(site_log) : site_log[k].site[2] # "setter_stubs"}

\* C22: on a plugin class, every place that chooses a role chooses the same
\* one, whatever the flags engine, data-representation and file-interpreter.
C22_OneRoleEverywhere ==
    site_flags.is_plugin_class = TRUE =>
        \A j, k \in RoleSites :
            RoleChosen(site_log[j].choice) = RoleChosen(site_log[k].choice)

-----------------------------------------------------------------------------
(* Properties of the body written for a plugin output (SpecBody).          *)

EncapsulationStatements == {RETURN_ENCAPSULATED, RETURN_ENCAPSULATED_CONST}

\* The body sends the result through the plugin module manager, with the
\* const call iff the class pointed to is const, and wraps it directly only
\* behind the test of the class name, and only for a class of the manifest
\* with public constructors.
RoutedThroughRegistry ==
    LET via    == PositionsOf(body_out, EncapsulationStatements)
        direct == PositionsOf(body_out, {RETURN_IF_SAME_CLASS})
        obj    == PositionsOf(body_out, {RETURNOBJ})
    IN  /\ Cardinality(via) = 1 /\ Cardinality(obj) = 1
        /\ \A v \in via :
              body_out[v] = RETURN_ENCAPSULATED_CONST
                  <=> body_fxn.Output \in {"const_plugin_ptr", "const_plugin_ptr_protected"}
        /\ direct # {} <=> body_fxn.Output \in {"plugin_ptr", "const_plugin_ptr"}
        /\ Cardinality(direct) <= 1
        /\ \A d \in direct, v \in via, o \in obj : o < d /\ d < v
        /\ PositionsOf(body_out, {RETURN_API_PTR, RETURN_API_OBJ, RETURN_CALL}) = {}

\* C23 (as stated): every getter or work function that returns a shared
\* pointer to a plugin class gets such a body, and generation aborts for
\* every entry that returns a plugin class by value or reference.
C23_PluginOutputAlwaysRouted ==
    /\ (bpc = "emitted" /\ body_fxn.fxn_type \in {"GETTER", "WORKFXN"}
          /\ body_fxn.Output \in PluginPointerKinds) => RoutedThroughRegistry
    /\ body_fxn.Output = "plugin_obj" => bpc # "emitted"

\* C23 (as the code has it): the same, for the entries that are flagged
\* neither Always_Returns_Nullptr nor Returns_This_Ref.
C23_PluginOutputRoutedUnlessFlagged ==
    (~body_fxn.Always_Returns_Nullptr /\ ~body_fxn.Returns_This_Ref) =>
        /\ (bpc = "emitted" /\ body_fxn.fxn_type \in {"GETTER", "WORKFXN"}
              /\ body_fxn.Output \in PluginPointerKinds) => RoutedThroughRegistry
        /\ body_fxn.Output = "plugin_obj" => bpc # "emitted"

\* The body of a getter that returns a shared pointer to a const plugin class
\* of the manifest with public constructors.
C23_Witness ==
    /\ bpc = "emitted"
    /\ body_fxn.fxn_type = "GETTER" /\ body_fxn.Output = "const_plugin_ptr"
    /\ ~body_fxn.Always_Returns_Nullptr /\ ~body_fxn.Returns_This_Ref
    /\ body_out = <<SIGNATURE, LOCK_MEMBER, RETURNOBJ, RETURN_IF_SAME_CLASS,
                    RETURN_ENCAPSULATED_CONST, CLOSE>>

-----------------------------------------------------------------------------
(* Properties of a reference to a class (checked under SpecRef).           *)

\* C24: a reference to a class that gets a wrapper but is no element of the
\* manifest, or whose element has no lightweight property, aborts the run,
\* wherever the reference stands.
C24_UnknownReferencedClassAborts ==
    (ref.class = "wrappable" /\ ref.entry \in {"absent", "no_lightweight_key"}) =>
        refpc # "written"

\* ---- C25 ----

GuardLines(text, line) == { i \in DOMAIN text : text[i] = line }

\* The guard is opened once before and closed once after the entry iff its
\* status is DEPRECATED, and is otherwise absent from the text.
GuardedOnceIffDeprecated(text, fxn) ==
    IF fxn.deprecation_status = DEPRECATED
    THEN /\ GuardLines(text, IFNDEF) = {1}
         /\ GuardLines(text, ENDIF) = {Len(text)}
    ELSE /\ GuardLines(text, IFNDEF) = {}
         /\ GuardLines(text, ENDIF) = {}

\* C25: in the prototype and in the implementation written for an entry, on
\* each of the paths of the implementation (always nullptr, result through
\* the plugin module manager, delegating call), the deprecation guard is
\* opened exactly once, before the entry, and closed exactly once, after it,
\* if the status of the entry is DEPRECATED, and is neither opened nor closed
\* otherwise.
C25_GuardOpenedAndClosedOnce ==
    /\ (ppc = "emitted" => GuardedOnceIffDeprecated(proto_out, body_fxn))
    /\ (bpc = "emitted" => GuardedOnceIffDeprecated(body_out, body_fxn))

C25_Witness ==
    /\ ppc = "emitted" /\ bpc = "emitted"
    /\ body_fxn.deprecation_status = DEPRECATED
    /\ TakesPluginPath(body_fxn)
    /\ ~body_fxn.Always_Returns_Nullptr
    /\ Len(body_out) > 2 /\ Len(proto_out) = 3

\* ---- C26 ----

\* The statements that return a value to the caller.
ValueReturnStatements ==
    {RETURN_NULL, RETURN_ENCAPSULATED, RETURN_ENCAPSULATED_CONST, RETURN_CALL,
     RETURN_API_PTR, RETURN_API_OBJ, RETURN_THIS}

\* C26: the implementation written for an entry that declares an output
\* type other than void, whether getter, setter or work function, holds a
\* statement that returns a value.
C26_OutputIsReturned ==
    (bpc = "emitted" /\ has_output(body_fxn)) =>
        \E i \in DOMAIN body_out : body_out[i] \in ValueReturnStatements

\* ---- C28 ----

\* C28: is_plugin_or_noapi_class, is_masala_plugin_class and
\* get_api_class_include_and_classname read the same base from the same
\* declaration, written "class X : public B" or "class X: public B", and
\* agree on when the declaration names no base.
C28_SameBaseFromSameDeclaration ==
    (rpc \notin {"call", "idle"} /\ rcur # MarkerFile) =>
        /\ parent_class_name(rcur) = parentclass(rcur)
        /\ parentclass(rcur) = parent_namespace_and_name(rcur)

\* ---- C29 ----

ContainerNames ==
    OneArgumentContainers \cup {"pair", "map", "unordered_map", "MASALA_SHARED_POINTER"}

IsContainerExpr(toks) ==
    /\ Len(toks) > 1
    /\ \E c \in ContainerNames : StartsWithContainer(toks, c)
    /\ toks[2] = LT

\* What follows the last closing bracket of the expression.
AfterClosingBracket(toks) == SubSeq(toks, RFind(toks, GT) + 1, Len(toks))

\* C29: the translation of a vector, set, list, pair, function, map,
\* unordered_map (with two or three arguments) or shared pointer ends with
\* what followed the closing bracket of the container in the expression
\* translated, a const or a reference mark for one.
C29_TextAfterContainerKept ==
    (tpc = "returned" /\ IsContainerExpr(type_in)) =>
        AfterClosingBracket(type_out) = AfterClosingBracket(type_in)

-----------------------------------------------------------------------------
(* Properties of the wrapper's name and header (SpecNames).                *)

WrapperRoutines == {"translator", "lineage", "emitter"}

-----------------------------------------------------------------------------
(* Properties of the include block (SpecInc).                              *)

\* The first entry of the accumulator the line is written for, 0 for none.
FirstEntryOf(line) ==
    LET at == { i \in 1..Len(accumulator) :
                   NewEntry(accumulator[i], FwdStr(generate_fwd_includes)) = line }
    IN  IF at = {} THEN 0 ELSE CHOOSE i \in at : \A j \in at : i <= j

\* C30: whatever the accumulator holds, and however often, the include
\* block written for a wrapper holds each line once at most, the lines stand
\* in the order in which their entries first come in the accumulator, the
\* header of the wrapper itself is not among them, and the block of the
\* implementation file holds no include written with brackets of its own
\* (container and system headers).
C30_IncludeBlockDeduplicated ==
    ipc = "written" =>
        /\ NoDuplicates(include_block)
        /\ \A k \in 1..Len(include_block) : FirstEntryOf(include_block[k]) > 0
        /\ \A k \in 1..(Len(include_block) - 1) :
              FirstEntryOf(include_block[k]) < FirstEntryOf(include_block[k + 1])
        /\ \A k \in 1..Len(include_block) :
              include_block[k] \notin { "#include <" \o original_api_include \o ".hh>",
                                        "#include <" \o original_api_include \o ".fwd.hh>" }
        /\ ~generate_fwd_includes =>
              \A k \in 1..Len(include_block), e \in AccumulatorEntries :
                  StartsWithBracket(e) => include_block[k] # "#include " \o e

\* The implementation file's block for an accumulator that holds the header
\* of another wrapper twice and the wrapper's own header between the two.
C30_Witness ==
    /\ ipc = "written" /\ ~generate_fwd_includes
    /\ accumulator = <<"lib_api/auto_generated_api/Bar_API", original_api_include,
                       "lib_api/auto_generated_api/Bar_API">>
    /\ include_block = <<"#include <lib_api/auto_generated_api/Bar_API.hh>">>

====
